---- MODULE Spec2Model ----
(***************************************************************************)
(* A state-machine model of the NVIDIA Triton adapters:                    *)
(*   - LmNvidiaTritonChat.execute (the /generate node, one request per     *)
(*     input item, continue-on-fail handling),                             *)
(*   - ChatNvidiaTriton._generate of the /infer chat model,                *)
(*   - ChatNvidiaTriton._generate of the /generate chat model.             *)
(* JavaScript strings are sequences of tokens (a "/" and every character   *)
(* of a parameter value is a token of its own), JSON values are tagged     *)
(* records, and an awaited HTTP call is two steps: the request is issued,  *)
(* and later it resolves with a response or rejects with an error.         *)
(***************************************************************************)
EXTENDS Integers, Sequences, FiniteSets, TLC

VARIABLES
    node,            \* per node parameter, the values its expression takes on the items
    env,             \* the server's possible responses and failures, the caller's messages
    mode,            \* "execute" | "infer" | "generate": the adapter that runs
    continueOnFail,  \* the host's continue-on-fail policy
    credentials,     \* what getCredentials returns
    items,           \* getInputData(): the input items (their json)
    chat,            \* the fields of the chat-model instance (supplyData)
    pc,              \* position of the running invocation
    serverUrl,       \* execute's normalised server URL
    itemIndex,       \* execute's loop index / number of finished _generate calls
    cur,             \* parameters of the item (or call) being processed
    requestLog,      \* every HTTP request issued so far, in order
    outstanding,     \* number of HTTP requests issued and not yet completed
    returnData,      \* execute's returnData array
    outcome,         \* how the last invocation ended
    failLog,         \* every failure caught so far: [item, error]
    received,        \* what the last completed HTTP request delivered
    handlerLog       \* errors handed to the chat model's onFailedAttempt handler

vars == <<node, env, mode, continueOnFail, credentials, items, chat, pc, serverUrl,
          itemIndex, cur, requestLog, outstanding, returnData, outcome,
          failLog, received, handlerLog>>

\* what an invocation reads and never writes
inputs == <<node, env, mode, continueOnFail, credentials, items>>

(***************************************************************************)
(* Bounds of the model.                                                    *)
(***************************************************************************)
MaxItems == 2
MaxCalls == 2
MaxModels == 3

(***************************************************************************)
(* JavaScript values.                                                      *)
(***************************************************************************)
Undefined == [t |-> "undefined"]
Null == [t |-> "null"]
Str(s) == [t |-> "string", s |-> s]
Bool(b) == [t |-> "boolean", b |-> b]
\* the number m * 10^e, normalised by Num below
RawNum(m, e) == [t |-> "number", m |-> m, e |-> e]
Obj(f) == [t |-> "object", f |-> f]
Arr(a) == [t |-> "array", a |-> a]
NaN == [t |-> "number", nan |-> TRUE]

EmptyObject == [k \in {} |-> Undefined]

RECURSIVE Num(_, _)
Num(m, e) ==
    IF m = 0 THEN RawNum(0, 0)
    ELSE IF m % 10 = 0 THEN Num(m \div 10, e + 1)
    ELSE RawNum(m, e)

Range(s) == {s[i] : i \in DOMAIN s}

TypeOf(v) == IF v.t \in {"null", "array"} THEN "object" ELSE v.t

IsArray(v) == v.t = "array"

Truthy(v) ==
    CASE v.t = "undefined" -> FALSE
      [] v.t = "null" -> FALSE
      [] v.t = "string" -> v.s # <<>>
      [] v.t = "boolean" -> v.b
      [] v.t = "number" -> "nan" \notin DOMAIN v /\ v.m # 0
      [] OTHER -> TRUE

\* v?.k and v.k on an object; undefined when the property is absent
Get(v, k) == IF v.t = "object" /\ k \in DOMAIN v.f THEN v.f[k] ELSE Undefined

\* a || b
OrElse(a, b) == IF Truthy(a) THEN a ELSE b

\* k in v
HasProperty(v, k) ==
    \/ v.t = "object" /\ k \in DOMAIN v.f
    \/ v.t = "array" /\ k = "length"

Digit == <<"0", "1", "2", "3", "4", "5", "6", "7", "8", "9">>

RECURSIVE NatToString(_)
NatToString(n) ==
    IF n < 10 THEN <<Digit[n + 1]>>
    ELSE NatToString(n \div 10) \o <<Digit[(n % 10) + 1]>>

RECURSIVE Zeros(_)
Zeros(n) == IF n <= 0 THEN <<>> ELSE <<"0">> \o Zeros(n - 1)

\* Number.prototype.toString for the decimals of the model (no exponent form)
NumberToString(v) ==
    IF "nan" \in DOMAIN v THEN <<"NaN">>
    ELSE LET sign == IF v.m < 0 THEN <<"-">> ELSE <<>>
             abs == IF v.m < 0 THEN -v.m ELSE v.m
             ds == NatToString(abs)
         IN IF v.e >= 0 THEN sign \o ds \o Zeros(v.e)
            ELSE IF Len(ds) > -v.e
                 THEN sign \o SubSeq(ds, 1, Len(ds) + v.e) \o <<".">>
                           \o SubSeq(ds, Len(ds) + v.e + 1, Len(ds))
                 ELSE sign \o <<"0", ".">> \o Zeros(-v.e - Len(ds)) \o ds

RECURSIVE JoinStrings(_, _)
JoinStrings(parts, sep) ==
    IF parts = <<>> THEN <<>>
    ELSE IF Len(parts) = 1 THEN parts[1]
    ELSE parts[1] \o sep \o JoinStrings(Tail(parts), sep)

\* String(v)
RECURSIVE ToJsString(_)
ToJsString(v) ==
    CASE v.t = "string" -> v.s
      [] v.t = "boolean" -> IF v.b THEN <<"true">> ELSE <<"false">>
      [] v.t = "number" -> NumberToString(v)
      [] v.t = "null" -> <<"null">>
      [] v.t = "undefined" -> <<"undefined">>
      [] v.t = "array" ->
            JoinStrings([i \in DOMAIN v.a |->
                            IF v.a[i].t \in {"null", "undefined"} THEN <<>>
                            ELSE ToJsString(v.a[i])], <<",">>)
      [] OTHER -> <<"[object Object]">>

\* the keys of an object in the order JSON.stringify walks them
KeyOrder(S) ==
    CHOOSE q \in [1..Cardinality(S) -> S] : \A k \in S : \E i \in DOMAIN q : q[i] = k

\* JSON.stringify(v)
RECURSIVE JsonStringify(_)
JsonStringify(v) ==
    CASE v.t = "string" -> <<"\"">> \o v.s \o <<"\"">>
      [] v.t = "boolean" -> ToJsString(v)
      [] v.t = "number" -> IF "nan" \in DOMAIN v THEN <<"null">> ELSE NumberToString(v)
      [] v.t = "null" -> <<"null">>
      [] v.t = "undefined" -> <<>>
      [] v.t = "array" ->
            <<"[">> \o JoinStrings([i \in DOMAIN v.a |-> JsonStringify(v.a[i])], <<",">>)
                    \o <<"]">>
      [] OTHER ->
            LET keys == KeyOrder({k \in DOMAIN v.f : v.f[k].t # "undefined"})
            IN <<"{">> \o JoinStrings([i \in DOMAIN keys |->
                                <<"\"", keys[i], "\"", ":">> \o JsonStringify(v.f[keys[i]])],
                            <<",">>)
                       \o <<"}">>

\* s contains t as a contiguous piece
Contains(s, t) ==
    \E i \in 0..(Len(s) - Len(t)) : SubSeq(s, i + 1, i + Len(t)) = t

(***************************************************************************)
(* Errors: what helpers.httpRequest rejects with, and what the adapters    *)
(* raise themselves.                                                       *)
(***************************************************************************)
NewError(message) ==
    [message |-> message, stack |-> <<"Error: ">> \o message, response |-> Undefined,
     cause |-> Undefined, httpCode |-> Undefined, status |-> Undefined]

NoOutcome == [kind |-> "none"]

Thrown(error) == [kind |-> "thrown", error |-> error]

NothingReceived == [kind |-> "none"]

ConnectionRefused ==
    [NewError(<<"connect ", "ECONNREFUSED", " 127.0.0.1:8000">>) EXCEPT
        !.cause = Obj("message" :> Str(<<"connect ", "ECONNREFUSED", " 127.0.0.1:8000">>))]

TritonServerError ==
    [NewError(<<"Triton server error">>) EXCEPT
        !.httpCode = Str(<<"500">>),
        !.response = Obj("data" :> Obj("error" :> Str(<<"Internal server error">>)))]

\* new Error(): an error without a message
UnnamedError == NewError(<<>>)

\* what the failed-attempt handler raises when it does not return
HandlerRaised == NewError(<<"The service failed to process your request">>)

ServiceUnavailable ==
    [NewError(<<"Request failed with status code 503">>) EXCEPT
        !.cause = Obj(("message" :> Str(<<"Service Unavailable">>))
                      @@ ("response" :> Obj("status" :> Num(503, 0))))]

(***************************************************************************)
(* Parameter coercion of execute: String.prototype.toLowerCase,            *)
(* parseFloat and Number() on strings whose tokens are single characters.  *)
(***************************************************************************)
UpperCase == <<"A", "B", "C", "E", "F", "L", "R", "S", "T", "U", "X">>
LowerCase == <<"a", "b", "c", "e", "f", "l", "r", "s", "t", "u", "x">>

ToLowerCase(s) ==
    [i \in DOMAIN s |->
        IF \E j \in DOMAIN UpperCase : UpperCase[j] = s[i]
        THEN LowerCase[CHOOSE j \in DOMAIN UpperCase : UpperCase[j] = s[i]]
        ELSE s[i]]

WhiteSpace == {" ", "\t", "\n"}

RECURSIVE TrimStart(_)
TrimStart(s) ==
    IF s # <<>> /\ Head(s) \in WhiteSpace THEN TrimStart(Tail(s)) ELSE s

RECURSIVE TrimEnd(_)
TrimEnd(s) ==
    IF s # <<>> /\ s[Len(s)] \in WhiteSpace THEN TrimEnd(SubSeq(s, 1, Len(s) - 1)) ELSE s

IsDigit(c) == \E d \in DOMAIN Digit : Digit[d] = c

DigitValue(c) == (CHOOSE d \in DOMAIN Digit : Digit[d] = c) - 1

\* how many digits s holds from position i on
RECURSIVE DigitRun(_, _)
DigitRun(s, i) ==
    IF i <= Len(s) /\ IsDigit(s[i]) THEN 1 + DigitRun(s, i + 1) ELSE 0

\* the value of the n digits of s from position i on, appended to acc
RECURSIVE DigitsValue(_, _, _, _)
DigitsValue(s, i, n, acc) ==
    IF n = 0 THEN acc ELSE DigitsValue(s, i + 1, n - 1, acc * 10 + DigitValue(s[i]))

\* The longest prefix of s that is a StrDecimalLiteral: [ok, m, e, len], the
\* literal's value being m * 10^e and len the number of characters it takes.
DecimalPrefix(s) ==
    LET signLen == IF s # <<>> /\ s[1] \in {"+", "-"} THEN 1 ELSE 0
        negative == signLen = 1 /\ s[1] = "-"
        intLen == DigitRun(s, signLen + 1)
        dotAt == signLen + intLen + 1
        hasDot == dotAt <= Len(s) /\ s[dotAt] = "."
        fracLen == IF hasDot THEN DigitRun(s, dotAt + 1) ELSE 0
        \* "5." is a literal, "." alone is not
        bodyLen == IF hasDot /\ intLen + fracLen > 0 THEN intLen + 1 + fracLen ELSE intLen
        usedFrac == IF bodyLen > intLen THEN fracLen ELSE 0
        expAt == signLen + bodyLen + 1
        hasE == expAt <= Len(s) /\ s[expAt] \in {"e", "E"}
        expSignLen == IF hasE /\ expAt + 1 <= Len(s) /\ s[expAt + 1] \in {"+", "-"}
                      THEN 1 ELSE 0
        expLen == IF hasE THEN DigitRun(s, expAt + 1 + expSignLen) ELSE 0
        expNegative == expSignLen = 1 /\ s[expAt + 1] = "-"
        expAbs == IF expLen > 0 THEN DigitsValue(s, expAt + 1 + expSignLen, expLen, 0) ELSE 0
        exponent == IF expNegative THEN -expAbs ELSE expAbs
        mantAbs == DigitsValue(s, dotAt + 1, usedFrac,
                               DigitsValue(s, signLen + 1, intLen, 0))
    IN [ok |-> intLen + usedFrac > 0,
        m |-> IF negative THEN -mantAbs ELSE mantAbs,
        e |-> exponent - usedFrac,
        len |-> signLen + bodyLen + (IF expLen > 0 THEN 1 + expSignLen + expLen ELSE 0)]

\* parseFloat(s)
ParseFloat(s) ==
    LET p == DecimalPrefix(TrimStart(s))
    IN IF p.ok THEN Num(p.m, p.e) ELSE NaN

HexDigits == <<"0", "1", "2", "3", "4", "5", "6", "7", "8", "9", "a", "b", "c", "d", "e", "f">>

RECURSIVE RadixValue(_, _, _)
RadixValue(s, radix, acc) ==
    IF s = <<>> THEN acc
    ELSE RadixValue(Tail(s), radix,
                    acc * radix + (CHOOSE d \in DOMAIN HexDigits : HexDigits[d] = Head(s)) - 1)

IsRadixDigits(s, radix) ==
    /\ s # <<>>
    /\ \A i \in DOMAIN s : \E d \in 1..radix : HexDigits[d] = s[i]

RadixOf(c) == IF c = "x" THEN 16 ELSE IF c = "o" THEN 8 ELSE IF c = "b" THEN 2 ELSE 0

\* Number(s), the conversion isFinite applies to its argument
StringToNumber(s) ==
    LET t == TrimEnd(TrimStart(s))
        p == DecimalPrefix(t)
        low == ToLowerCase(t)
    IN IF t = <<>> THEN Num(0, 0)
       ELSE IF Len(t) > 2 /\ t[1] = "0" /\ RadixOf(low[2]) # 0
                 /\ IsRadixDigits(SubSeq(low, 3, Len(low)), RadixOf(low[2]))
            THEN Num(RadixValue(SubSeq(low, 3, Len(low)), RadixOf(low[2]), 0), 0)
       ELSE IF p.ok /\ p.len = Len(t) THEN Num(p.m, p.e)
       ELSE NaN

IsNaN(v) == "nan" \in DOMAIN v

\* isFinite(s) on a string of the model (no literal of the model is infinite)
IsFinite(s) == ~IsNaN(StringToNumber(s))

\* lines 245-250: the value sent for one entry of the parameter collection
CoerceValue(value) ==
    IF value.t = "string"
    THEN IF ToLowerCase(value.s) = <<"t", "r", "u", "e">> THEN Bool(TRUE)
         ELSE IF ToLowerCase(value.s) = <<"f", "a", "l", "s", "e">> THEN Bool(FALSE)
         ELSE IF ~IsNaN(ParseFloat(value.s)) /\ IsFinite(value.s) THEN ParseFloat(value.s)
         ELSE value
    ELSE value

\* lines 241-253: the loop that fills tritonApiParameters
RECURSIVE TritonApiParameters(_, _)
TritonApiParameters(paramsCollection, acc) ==
    IF paramsCollection = <<>> THEN acc
    ELSE LET param == Head(paramsCollection)
         IN TritonApiParameters(
                Tail(paramsCollection),
                IF param.name # ""
                THEN (param.name :> CoerceValue(param.value)) @@ acc
                ELSE acc)

(***************************************************************************)
(* LmNvidiaTritonChat.execute                                              *)
(***************************************************************************)
\* String.prototype.replace(/\/+$/, '')
RECURSIVE StripTrailingSlashes(_)
StripTrailingSlashes(url) ==
    IF url # <<>> /\ url[Len(url)] = "/"
    THEN StripTrailingSlashes(SubSeq(url, 1, Len(url) - 1))
    ELSE url

\* encodeURIComponent on the tokens of the model
EncodeURIComponent(s) ==
    [i \in DOMAIN s |->
        IF s[i] = "/" THEN "%2F" ELSE IF s[i] = " " THEN "%20" ELSE s[i]]

\* line 260
ApiUrl(url, p) ==
    url \o <<"/", "v2", "/", "models", "/">> \o EncodeURIComponent(p.modelName)
        \o (IF p.endpointPathSegment # <<>> /\ Head(p.endpointPathSegment) = "/"
            THEN p.endpointPathSegment
            ELSE <<"/">> \o p.endpointPathSegment)

\* lines 262-268
Payload(p) ==
    LET tritonApiParameters == TritonApiParameters(p.paramsCollection, EmptyObject)
    IN (IF DOMAIN tritonApiParameters # {}
        THEN "parameters" :> Obj(tritonApiParameters)
        ELSE EmptyObject)
       @@ (IF p.requestInputField # ""
           THEN p.requestInputField :> Str(p.textInput)
           ELSE EmptyObject)

\* lines 278-284: the argument of helpers.httpRequest
HttpRequestOptions(url, p) ==
    [method |-> "POST", url |-> ApiUrl(url, p), body |-> Obj(Payload(p)), json |-> TRUE]

ModelNameRequired == <<"Model Name is a required parameter.">>
TextInputRequired == <<"Text Input is a required parameter.">>

\* lines 255-256: the error validation raises, or "none"
ValidationError_NoTextCheck(p) ==
    IF p.modelName = <<>> THEN ModelNameRequired ELSE <<>>

ValidationError(p) ==
    IF p.modelName = <<>> THEN ModelNameRequired
    ELSE IF p.textInput = <<>> /\ p.requestInputField # "" THEN TextInputRequired
    ELSE <<>>

\* lines 286-290: the completion text read from the response
CompletionText(responseData, responseOutputField) ==
    IF Truthy(responseData) /\ TypeOf(responseData) = "object" /\ responseData.t # "null"
       /\ HasProperty(responseData, responseOutputField)
    THEN ToJsString(IF responseData.t = "object"
                    THEN responseData.f[responseOutputField]
                    ELSE Num(Len(responseData.a), 0))
    ELSE <<>>

\* lines 306-313
ResultItem_InputWins(json, p, responseData, index) ==
    [json |-> json
              @@ (p.outputFieldNameN8n :>
                    Str(CompletionText(responseData, p.responseOutputField)))
              @@ ("rawTritonResponse" :> responseData),
     pairedItem |-> [item |-> index]]

ResultItem(json, p, responseData, index) ==
    [json |-> ("rawTritonResponse" :> responseData)
              @@ (p.outputFieldNameN8n :>
                    Str(CompletionText(responseData, p.responseOutputField)))
              @@ json,
     pairedItem |-> [item |-> index]]

\* lines 317-323
ErrorDetails(error) ==
    [message |-> error.message,
     stack |-> error.stack,
     details |-> OrElse(OrElse(Get(error.response, "data"), error.cause),
                        Str(<<"No additional details">>)),
     requestUrl |-> Undefined,
     requestPayload |-> Undefined]

\* lines 325-329
ErrorData_NoJson(json, error, index) ==
    [json |-> EmptyObject, error |-> ErrorDetails(error), pairedItem |-> [item |-> index]]

ErrorData(json, error, index) ==
    [json |-> json, error |-> ErrorDetails(error), pairedItem |-> [item |-> index]]

\* lines 334-337: the error execute re-throws
Rethrown(error) ==
    LET detail == Get(Get(error.response, "data"), "error")
    IN [error EXCEPT !.message =
            <<"Triton API Error: ">> \o error.message
                \o <<". Check node parameters and Triton server logs.">>
                \o (IF Truthy(detail)
                    THEN <<" Server detail: ">> \o ToJsString(detail)
                    ELSE <<>>)]

\* line 324: whether the catch block records the failure and goes on
CapturesFailure_Never(policy) == FALSE

CapturesFailure_Always(policy) == TRUE

CapturesFailure(policy) == policy

\* lines 331 and 228: 'continue' moves the loop on to the next item
AfterCapturedFailure_Retry(index) == index

AfterCapturedFailure(index) == index + 1

\* line 278: execute suspends at the await until the request completes
AfterRequest_NoAwait == "loop"

AfterRequest == "awaiting"

\* lines 316-339: the catch block of the loop body
Catch(error) ==
    /\ failLog' = Append(failLog, [item |-> itemIndex, error |-> error])
    /\ IF CapturesFailure(continueOnFail)
       THEN /\ returnData' = Append(returnData,
                                    ErrorData(items[itemIndex + 1], error, itemIndex))
            /\ itemIndex' = AfterCapturedFailure(itemIndex)
            /\ pc' = "loop"
            /\ outcome' = outcome
       ELSE /\ outcome' = Thrown(Rethrown(error))
            /\ pc' = "done"
            /\ UNCHANGED <<returnData, itemIndex>>

\* lines 220-226: the input items and the credential are read
ExecuteStart ==
    /\ mode = "execute"
    /\ pc = "start"
    /\ IF Get(credentials, "serverUrl").t = "string"
       THEN /\ serverUrl' = StripTrailingSlashes(credentials.f["serverUrl"].s)
            /\ pc' = "loop"
            /\ outcome' = outcome
       ELSE \* credentials.serverUrl is undefined: .replace raises a TypeError
            /\ outcome' = Thrown(NewError(<<"Cannot read properties of undefined">>))
            /\ pc' = "done"
            /\ serverUrl' = serverUrl
    /\ UNCHANGED <<inputs, chat, itemIndex, cur, requestLog, outstanding, returnData,
                   failLog, received, handlerLog>>

\* lines 228-256: an item's parameters are read and validation rejects them
ItemRejected ==
    /\ mode = "execute"
    /\ pc = "loop"
    /\ itemIndex < Len(items)
    /\ \E p \in node :
        /\ ValidationError(p) # <<>>
        /\ cur' = [item |-> itemIndex, parameters |-> p]
        /\ Catch(NewError(ValidationError(p)))
    /\ UNCHANGED <<inputs, chat, serverUrl, requestLog, outstanding, received, handlerLog>>

\* lines 228-284: an item's parameters are read, pass validation, and the
\* request is handed to helpers.httpRequest
ItemRequested ==
    /\ mode = "execute"
    /\ pc = "loop"
    /\ itemIndex < Len(items)
    /\ Len(requestLog) < Len(items) + 1
    /\ \E p \in node :
        /\ ValidationError(p) = <<>>
        /\ cur' = [item |-> itemIndex, parameters |-> p]
        /\ requestLog' = Append(requestLog,
                                [item |-> itemIndex, options |-> HttpRequestOptions(serverUrl, p)])
    /\ outstanding' = outstanding + 1
    /\ pc' = AfterRequest
    /\ UNCHANGED <<inputs, chat, serverUrl, itemIndex, returnData, outcome, failLog,
                   received, handlerLog>>

\* lines 286-314: the request resolves and the item's record is pushed
ItemResolved ==
    /\ mode = "execute"
    /\ pc = "awaiting"
    /\ outstanding > 0
    /\ \E responseData \in env.responses :
        /\ received' = [kind |-> "response", item |-> itemIndex, value |-> responseData]
        /\ returnData' = Append(returnData,
                                ResultItem(items[itemIndex + 1], cur.parameters, responseData,
                                           itemIndex))
    /\ outstanding' = outstanding - 1
    /\ itemIndex' = itemIndex + 1
    /\ pc' = "loop"
    /\ UNCHANGED <<inputs, chat, serverUrl, cur, requestLog, outcome, failLog, handlerLog>>

\* lines 316-339: the request rejects and the catch block runs
ItemFailed ==
    /\ mode = "execute"
    /\ pc = "awaiting"
    /\ outstanding > 0
    /\ \E error \in env.errors :
        /\ received' = [kind |-> "error", item |-> itemIndex, value |-> error]
        /\ Catch(error)
    /\ outstanding' = outstanding - 1
    /\ UNCHANGED <<inputs, chat, serverUrl, cur, requestLog, handlerLog>>

\* line 341: the loop is over and prepareOutputData wraps the records
ExecuteReturn ==
    /\ mode = "execute"
    /\ pc = "loop"
    /\ itemIndex >= Len(items)
    /\ outcome' = [kind |-> "returned", output |-> <<returnData>>]
    /\ pc' = "done"
    /\ UNCHANGED <<inputs, chat, serverUrl, itemIndex, cur, requestLog, outstanding,
                   returnData, failLog, received, handlerLog>>

NextExecute ==
    \/ ExecuteStart
    \/ ItemRejected
    \/ ItemRequested
    \/ ItemResolved
    \/ ItemFailed
    \/ ExecuteReturn

(***************************************************************************)
(* ChatNvidiaTriton, the chat models supplyData builds (LmChatNvidiaTriton *)
(* .node.ts holds two: the /infer model, lines 41-224, and the /generate   *)
(* model, lines 361-475).                                                  *)
(***************************************************************************)
LocalHost == <<"http:", "/", "/", "localhost:8000">>

\* lines 292-310 and 54-60: supplyData's constructor call of the /infer model
InferInstance(creds, p) ==
    [tritonBaseUrl |-> StripTrailingSlashes(
                          OrElse(Get(creds, "baseUrl"), Str(LocalHost)).s),
     modelName |-> p.modelName,
     inputFieldName |-> p.inputFieldName,
     outputFieldName |-> p.outputFieldName,
     temperature |-> Get(p.options, "temperature"),
     onFailedAttemptHandler |-> TRUE]

\* lines 558-587 and 371-377: supplyData's constructor call of the /generate model
GenerateInstance(creds, p) ==
    [tritonBaseUrl |-> StripTrailingSlashes(
                          OrElse(Get(creds, "baseUrl"), Str(LocalHost)).s),
     modelName |-> p.modelName,
     temperature |-> IF Get(p.options, "temperature").t = "undefined"
                     THEN Num(0, 0) ELSE Get(p.options, "temperature"),
     streamOutput |-> IF Get(p.options, "stream").t = "undefined"
                      THEN Bool(FALSE) ELSE Get(p.options, "stream"),
     onFailedAttemptHandler |-> TRUE]

\* lines 107-118 and 391-405: the prompt is the last message's content
PromptText_FirstMessage(messages) ==
    IF Len(messages) > 0
    THEN IF messages[1].content.t = "string"
         THEN messages[1].content.s
         ELSE JsonStringify(messages[1].content)
    ELSE <<" ">>

PromptText(messages) ==
    IF Len(messages) > 0
    THEN LET lastMessage == messages[Len(messages)]
         IN IF lastMessage.content.t = "string"
            THEN lastMessage.content.s
            ELSE JsonStringify(lastMessage.content)
    ELSE <<" ">>

\* line 120, uuidv4(): the n-th identifier the generator hands out
Uuidv4(n) == <<"uuid-", Digit[n + 1]>>

\* line 120 with the identifier made once for the instance
RequestId_PerInstance(n) == <<"n8n_">> \o Uuidv4(0)

\* line 120
RequestId(n) == <<"n8n_">> \o Uuidv4(n)

\* lines 121-135
InferPayload(model, promptText, requestId) ==
    (IF model.temperature.t # "undefined"
     THEN "parameters" :> Obj("temperature" :> model.temperature)
     ELSE EmptyObject)
    @@ ("id" :> Str(requestId))
    @@ ("inputs" :> Arr(<<Obj(("name" :> Str(<<model.inputFieldName>>))
                              @@ ("shape" :> Arr(<<Num(1, 0)>>))
                              @@ ("datatype" :> Str(<<"BYTES">>))
                              @@ ("data" :> Arr(<<Str(promptText)>>)))>>))
    @@ ("outputs" :> Arr(<<Obj("name" :> Str(<<model.outputFieldName>>))>>))

\* lines 137-147
InferRequestOptions(model, promptText, requestId) ==
    [method |-> "POST",
     body |-> Obj(InferPayload(model, promptText, requestId)),
     headers |-> Obj("Content-Type" :> Str(<<"application/json">>)),
     url |-> model.tritonBaseUrl \o <<"/", "v2", "/", "models", "/">> \o model.modelName
                \o <<"/", "infer">>,
     json |-> TRUE]

\* lines 407-415
GeneratePayload(model, promptText) ==
    ("text_input" :> Str(promptText))
    @@ ("parameters" :> Obj(("stream" :> model.streamOutput)
                            @@ ("temperature" :> model.temperature)))

\* lines 417-427
GenerateRequestOptions(model, promptText) ==
    [method |-> "POST",
     body |-> Obj(GeneratePayload(model, promptText)),
     headers |-> Obj("Content-Type" :> Str(<<"application/json">>)),
     url |-> model.tritonBaseUrl \o <<"/", "v2", "/", "models", "/">> \o model.modelName
                \o <<"/", "generate">>,
     json |-> TRUE]

\* lines 151-159 with the error's own message taken before the cause's
ApiError_OwnMessageFirst(typedError, unknown) ==
    LET errorMessage == OrElse(OrElse(Str(typedError.message),
                                      Get(typedError.cause, "message")), Str(unknown))
        status == OrElse(OrElse(Get(Get(typedError.cause, "response"), "status"),
                                typedError.httpCode), Num(500, 0))
    IN [NewError(<<"Nvidia Triton API Error (Status ">> \o ToJsString(status) \o <<"): ">>
                    \o ToJsString(errorMessage))
        EXCEPT !.status = status]

\* lines 151-159 and 433-443: the error _generate raises for a failed request
ApiError(typedError, unknown) ==
    LET errorMessage == OrElse(OrElse(Get(typedError.cause, "message"),
                                      Str(typedError.message)), Str(unknown))
        status == OrElse(OrElse(Get(Get(typedError.cause, "response"), "status"),
                                typedError.httpCode), Num(500, 0))
    IN [NewError(<<"Nvidia Triton API Error (Status ">> \o ToJsString(status) \o <<"): ">>
                    \o ToJsString(errorMessage))
        EXCEPT !.status = status]

\* lines 148-160 and 428-444: the catch block around the request. The handler
\* is the callback supplyData passes as onFailedAttempt; it is called outside
\* any try, so what it raises (raised # Undefined) leaves _generate as it is
CatchRejected(model, typedError, raised, unknown) ==
    IF model.onFailedAttemptHandler /\ raised # Undefined
    THEN Thrown(raised)
    ELSE Thrown(ApiError(typedError, unknown))

\* Array.prototype.find with the callback of line 167: the index of the
\* first entry named outputFieldName, 0 when there is none
FindOutput_Last(outputs, outputFieldName) ==
    LET hits == {i \in DOMAIN outputs : Get(outputs[i], "name") = Str(<<outputFieldName>>)}
    IN IF hits = {} THEN 0 ELSE CHOOSE i \in hits : \A j \in hits : j <= i

FindOutput(outputs, outputFieldName) ==
    LET hits == {i \in DOMAIN outputs : Get(outputs[i], "name") = Str(<<outputFieldName>>)}
    IN IF hits = {} THEN 0 ELSE CHOOSE i \in hits : \A j \in hits : i <= j

\* line 170: outputs.map(o => o.name).join(', ')
AvailableNames(outputs) ==
    JoinStrings([i \in DOMAIN outputs |->
                    IF Get(outputs[i], "name").t \in {"undefined", "null"} THEN <<>>
                    ELSE ToJsString(Get(outputs[i], "name"))], <<", ">>)

OutputsNotFound(responseData) ==
    NewError(<<"Invalid response: 'outputs' array not found. Response: ">>
                \o JsonStringify(responseData))

OutputFieldNotFound(outputFieldName, outputs) ==
    NewError(<<"Output field '", outputFieldName, "' not found. Available: ">>
                \o AvailableNames(outputs))

DataMissing(outputFieldName, outputObject) ==
    NewError(<<"Data for '", outputFieldName, "' missing/not array. Output: ">>
                \o JsonStringify(outputObject))

ExpectedString(outputFieldName, textOutput) ==
    NewError(<<"Expected string data for '", outputFieldName, "', got ", TypeOf(textOutput)>>)

\* lines 186-196
InferChatResult(model, responseData, textOutput, requestId) ==
    [kind |-> "result",
     generations |-> <<[text |-> textOutput, message |-> [content |-> Str(textOutput)]]>>,
     llmOutput |-> [model_name |-> OrElse(Get(responseData, "model_name"),
                                          Str(model.modelName)),
                    model_version |-> Get(responseData, "model_version"),
                    id |-> OrElse(Get(responseData, "id"), Str(requestId)),
                    raw_response |-> responseData]]

\* lines 162-196: how the /infer _generate ends once the request has resolved
InferExtract_TypeBeforeData(model, responseData, requestId) ==
    LET outputs == Get(responseData, "outputs")
    IN IF ~Truthy(outputs) \/ ~IsArray(outputs) THEN Thrown(OutputsNotFound(responseData))
       ELSE LET at == FindOutput(outputs.a, model.outputFieldName)
            IN IF at = 0 THEN Thrown(OutputFieldNotFound(model.outputFieldName, outputs.a))
               ELSE LET data == Get(outputs.a[at], "data")
                        first == IF IsArray(data) /\ Len(data.a) > 0 THEN data.a[1]
                                 ELSE Undefined
                    IN IF first.t # "string"
                       THEN Thrown(ExpectedString(model.outputFieldName, first))
                       ELSE InferChatResult(model, responseData, first.s, requestId)

InferExtract(model, responseData, requestId) ==
    LET outputs == Get(responseData, "outputs")
    IN IF ~Truthy(outputs) \/ ~IsArray(outputs) THEN Thrown(OutputsNotFound(responseData))
       ELSE LET at == FindOutput(outputs.a, model.outputFieldName)
            IN IF at = 0 THEN Thrown(OutputFieldNotFound(model.outputFieldName, outputs.a))
               ELSE LET outputObject == outputs.a[at]
                        data == Get(outputObject, "data")
                    IN IF ~Truthy(data) \/ ~IsArray(data) \/ Len(data.a) = 0
                       THEN Thrown(DataMissing(model.outputFieldName, outputObject))
                       ELSE IF data.a[1].t # "string"
                       THEN Thrown(ExpectedString(model.outputFieldName, data.a[1]))
                       ELSE InferChatResult(model, responseData, data.a[1].s, requestId)

TextOutputNotFound(responseData) ==
    NewError(<<"Invalid response structure from Triton: '", "text_output",
               "' not found or not a string. Response: ">>
                \o JsonStringify(responseData))

\* lines 446-473: how the /generate _generate ends once the request has resolved
GenerateExtract(model, responseData) ==
    LET textOutput == Get(responseData, "text_output")
    IN IF textOutput.t # "string" THEN Thrown(TextOutputNotFound(responseData))
       ELSE [kind |-> "result",
             generations |-> <<[text |-> textOutput.s,
                                message |-> [content |-> textOutput]]>>,
             llmOutput |-> [model_name |-> OrElse(Get(responseData, "model_name"),
                                                  Str(model.modelName)),
                            model_version |-> Get(responseData, "model_version"),
                            raw_response |-> responseData]]

\* lines 292-319: supplyData builds the /infer chat model
InferSupplyData ==
    /\ mode = "infer"
    /\ pc = "start"
    /\ \E p \in node : chat' = InferInstance(credentials, p)
    /\ pc' = "idle"
    /\ UNCHANGED <<inputs, serverUrl, itemIndex, cur, requestLog, outstanding, returnData,
                   outcome, failLog, received, handlerLog>>

\* lines 97-147: _generate of the /infer model is called and runs up to its await
InferCalled ==
    /\ mode = "infer"
    /\ pc = "idle"
    /\ itemIndex < MaxCalls
    /\ \E messages \in env.messages :
        LET requestId == RequestId(itemIndex + 1)
        IN /\ cur' = [item |-> itemIndex, messages |-> messages, requestId |-> requestId]
           /\ requestLog' = Append(requestLog,
                [item |-> itemIndex,
                 options |-> InferRequestOptions(chat, PromptText(messages), requestId)])
    /\ outstanding' = outstanding + 1
    /\ pc' = "awaiting"
    /\ outcome' = NoOutcome
    /\ received' = NothingReceived
    /\ UNCHANGED <<inputs, chat, serverUrl, itemIndex, returnData, failLog, handlerLog>>

\* lines 162-196: the request resolves and the text is extracted
InferResolved ==
    /\ mode = "infer"
    /\ pc = "awaiting"
    /\ \E responseData \in env.responses :
        /\ received' = [kind |-> "response", item |-> itemIndex, value |-> responseData]
        /\ outcome' = InferExtract(chat, responseData, cur.requestId)
    /\ outstanding' = outstanding - 1
    /\ itemIndex' = itemIndex + 1
    /\ pc' = "idle"
    /\ UNCHANGED <<inputs, chat, serverUrl, cur, requestLog, returnData, failLog, handlerLog>>

\* lines 148-160: the request rejects, the handler is told and, unless the
\* handler itself raises, an API error is raised
InferRejected ==
    /\ mode = "infer"
    /\ pc = "awaiting"
    /\ \E error \in env.errors, raised \in env.handler :
        /\ received' = [kind |-> "error", item |-> itemIndex, value |-> error]
        /\ handlerLog' = IF chat.onFailedAttemptHandler
                         THEN Append(handlerLog, [item |-> itemIndex, error |-> error])
                         ELSE handlerLog
        /\ failLog' = Append(failLog, [item |-> itemIndex, error |-> error])
        /\ outcome' = CatchRejected(chat, error, raised, <<"Unknown error">>)
    /\ outstanding' = outstanding - 1
    /\ itemIndex' = itemIndex + 1
    /\ pc' = "idle"
    /\ UNCHANGED <<inputs, chat, serverUrl, cur, requestLog, returnData>>

NextInfer ==
    \/ InferSupplyData
    \/ InferCalled
    \/ InferResolved
    \/ InferRejected

\* lines 558-592: supplyData builds the /generate chat model
GenerateSupplyData ==
    /\ mode = "generate"
    /\ pc = "start"
    /\ \E p \in node : chat' = GenerateInstance(credentials, p)
    /\ pc' = "idle"
    /\ UNCHANGED <<inputs, serverUrl, itemIndex, cur, requestLog, outstanding, returnData,
                   outcome, failLog, received, handlerLog>>

\* lines 384-427: _generate of the /generate model is called and runs up to its await
GenerateCalled ==
    /\ mode = "generate"
    /\ pc = "idle"
    /\ itemIndex < MaxCalls
    /\ \E messages \in env.messages :
        /\ cur' = [item |-> itemIndex, messages |-> messages]
        /\ requestLog' = Append(requestLog,
                [item |-> itemIndex,
                 options |-> GenerateRequestOptions(chat, PromptText(messages))])
    /\ outstanding' = outstanding + 1
    /\ pc' = "awaiting"
    /\ outcome' = NoOutcome
    /\ received' = NothingReceived
    /\ UNCHANGED <<inputs, chat, serverUrl, itemIndex, returnData, failLog, handlerLog>>

\* lines 446-473: the request resolves and the text is extracted
GenerateResolved ==
    /\ mode = "generate"
    /\ pc = "awaiting"
    /\ \E responseData \in env.responses :
        /\ received' = [kind |-> "response", item |-> itemIndex, value |-> responseData]
        /\ outcome' = GenerateExtract(chat, responseData)
    /\ outstanding' = outstanding - 1
    /\ itemIndex' = itemIndex + 1
    /\ pc' = "idle"
    /\ UNCHANGED <<inputs, chat, serverUrl, cur, requestLog, returnData, failLog, handlerLog>>

\* lines 428-444: the request rejects, the handler is told and, unless the
\* handler itself raises, an API error is raised
GenerateRejected ==
    /\ mode = "generate"
    /\ pc = "awaiting"
    /\ \E error \in env.errors, raised \in env.handler :
        /\ received' = [kind |-> "error", item |-> itemIndex, value |-> error]
        /\ handlerLog' = IF chat.onFailedAttemptHandler
                         THEN Append(handlerLog, [item |-> itemIndex, error |-> error])
                         ELSE handlerLog
        /\ failLog' = Append(failLog, [item |-> itemIndex, error |-> error])
        /\ outcome' = CatchRejected(chat, error, raised,
                                    <<"Unknown error during Triton API call">>)
    /\ outstanding' = outstanding - 1
    /\ itemIndex' = itemIndex + 1
    /\ pc' = "idle"
    /\ UNCHANGED <<inputs, chat, serverUrl, cur, requestLog, returnData>>

NextGenerate ==
    \/ GenerateSupplyData
    \/ GenerateCalled
    \/ GenerateResolved
    \/ GenerateRejected

(***************************************************************************)
(* JSON.parse on the tokens of the model: a string is a quote, its tokens  *)
(* and a quote; a number is written digit by digit; true, false and null   *)
(* are one token each; the name of a member is one token.                  *)
(***************************************************************************)
ParseFailed == [ok |-> FALSE, v |-> Undefined, rest |-> <<>>]

Parsed(v, rest) == [ok |-> TRUE, v |-> v, rest |-> rest]

\* the position of the first quote of s after position i, 0 when there is none
RECURSIVE ClosingQuote(_, _)
ClosingQuote(s, i) ==
    IF i > Len(s) THEN 0
    ELSE IF s[i] = "\"" THEN i
    ELSE ClosingQuote(s, i + 1)

\* a JSON string at the head of s
ParseJsonString(s) ==
    LET close == ClosingQuote(s, 2)
    IN IF s = <<>> \/ s[1] # "\"" \/ close = 0 THEN ParseFailed
       ELSE Parsed(Str(SubSeq(s, 2, close - 1)), SubSeq(s, close + 1, Len(s)))

\* a JSON number at the head of s: -? int frac? exp?, no leading zeros
ParseJsonNumber(s) ==
    LET signLen == IF s # <<>> /\ s[1] = "-" THEN 1 ELSE 0
        intLen == DigitRun(s, signLen + 1)
        dotAt == signLen + intLen + 1
        hasDot == dotAt <= Len(s) /\ s[dotAt] = "."
        fracLen == IF hasDot THEN DigitRun(s, dotAt + 1) ELSE 0
        expAt == IF hasDot THEN dotAt + 1 + fracLen ELSE dotAt
        hasE == expAt <= Len(s) /\ s[expAt] \in {"e", "E"}
        expSignLen == IF hasE /\ expAt + 1 <= Len(s) /\ s[expAt + 1] \in {"+", "-"}
                      THEN 1 ELSE 0
        expLen == IF hasE THEN DigitRun(s, expAt + 1 + expSignLen) ELSE 0
        expAbs == IF expLen > 0 THEN DigitsValue(s, expAt + 1 + expSignLen, expLen, 0) ELSE 0
        exponent == IF expSignLen = 1 /\ s[expAt + 1] = "-" THEN -expAbs ELSE expAbs
        mantAbs == DigitsValue(s, dotAt + 1, fracLen, DigitsValue(s, signLen + 1, intLen, 0))
        len == IF hasE THEN expAt + expSignLen + expLen ELSE expAt - 1
    IN IF \/ intLen = 0
          \/ intLen > 1 /\ s[signLen + 1] = "0"
          \/ hasDot /\ fracLen = 0
          \/ hasE /\ expLen = 0
       THEN ParseFailed
       ELSE Parsed(Num(IF signLen = 1 THEN -mantAbs ELSE mantAbs, exponent - fracLen),
                   SubSeq(s, len + 1, Len(s)))

RECURSIVE ParseJsonValue(_)
RECURSIVE ParseJsonElements(_, _)
RECURSIVE ParseJsonMembers(_, _)

\* the elements of an array after its '[' or after a ',': acc holds those read
ParseJsonElements(s, acc) ==
    LET element == ParseJsonValue(s)
        rest == TrimStart(element.rest)
    IN IF ~element.ok \/ rest = <<>> THEN ParseFailed
       ELSE IF rest[1] = "]" THEN Parsed(Arr(Append(acc, element.v)), Tail(rest))
       ELSE IF rest[1] = "," THEN ParseJsonElements(Tail(rest), Append(acc, element.v))
       ELSE ParseFailed

\* the members of an object after its '{' or after a ',': acc holds those read,
\* a name read twice keeping its last value
ParseJsonMembers(s, acc) ==
    LET t == TrimStart(s)
        name == ParseJsonString(t)
        colon == TrimStart(name.rest)
        member == IF name.ok /\ Len(name.v.s) = 1 /\ colon # <<>> /\ colon[1] = ":"
                  THEN ParseJsonValue(Tail(colon))
                  ELSE ParseFailed
        rest == TrimStart(member.rest)
    IN IF ~member.ok \/ rest = <<>> THEN ParseFailed
       ELSE IF rest[1] = "}"
       THEN Parsed(Obj((name.v.s[1] :> member.v) @@ acc), Tail(rest))
       ELSE IF rest[1] = ","
       THEN ParseJsonMembers(Tail(rest), (name.v.s[1] :> member.v) @@ acc)
       ELSE ParseFailed

\* a JSON value at the head of s, white space before it skipped
ParseJsonValue(s) ==
    LET t == TrimStart(s)
    IN IF t = <<>> THEN ParseFailed
       ELSE IF t[1] = "\"" THEN ParseJsonString(t)
       ELSE IF t[1] = "true" THEN Parsed(Bool(TRUE), Tail(t))
       ELSE IF t[1] = "false" THEN Parsed(Bool(FALSE), Tail(t))
       ELSE IF t[1] = "null" THEN Parsed(Null, Tail(t))
       ELSE IF t[1] = "[" THEN
            IF TrimStart(Tail(t)) # <<>> /\ TrimStart(Tail(t))[1] = "]"
            THEN Parsed(Arr(<<>>), Tail(TrimStart(Tail(t))))
            ELSE ParseJsonElements(Tail(t), <<>>)
       ELSE IF t[1] = "{" THEN
            IF TrimStart(Tail(t)) # <<>> /\ TrimStart(Tail(t))[1] = "}"
            THEN Parsed(Obj(EmptyObject), Tail(TrimStart(Tail(t))))
            ELSE ParseJsonMembers(Tail(t), EmptyObject)
       ELSE ParseJsonNumber(t)

\* JSON.parse(text): [ok, v], ok FALSE where JSON.parse raises a SyntaxError
JsonParse(text) ==
    LET value == ParseJsonValue(text)
    IN IF value.ok /\ TrimStart(value.rest) = <<>>
       THEN [ok |-> TRUE, v |-> value.v]
       ELSE [ok |-> FALSE, v |-> Undefined]

(***************************************************************************)
(* ChatNvidiaTriton.withStructuredOutput of the /infer model               *)
(* (LmChatNvidiaTriton.node.ts, lines 199-223).                            *)
(***************************************************************************)
\* lines 212-219 with the parse error left to propagate
StructuredOutput_NoFallback(content) ==
    IF content.t = "string"
    THEN LET parsed == JsonParse(content.s)
         IN IF parsed.ok THEN [kind |-> "returned", output |-> parsed.v]
            ELSE Thrown(NewError(<<"SyntaxError">>))
    ELSE [kind |-> "returned", output |-> content]

\* lines 212-219: what the runnable's invoke returns for the reply's content
StructuredOutput(content) ==
    IF content.t = "string"
    THEN LET parsed == JsonParse(content.s)
         IN IF parsed.ok THEN [kind |-> "returned", output |-> parsed.v]
            ELSE [kind |-> "returned", output |-> Obj("output" :> content)]
    ELSE [kind |-> "returned", output |-> content]

\* line 211: llm.invoke gives the message of the one generation of _generate,
\* or raises what _generate raises
AfterInvoke(generated) ==
    IF generated.kind = "thrown" THEN generated
    ELSE StructuredOutput(generated.generations[1].message.content)

\* lines 292-319: supplyData builds the model the runnable is made for
StructuredSupplyData ==
    /\ mode = "structured"
    /\ pc = "start"
    /\ \E p \in node : chat' = InferInstance(credentials, p)
    /\ pc' = "idle"
    /\ UNCHANGED <<inputs, serverUrl, itemIndex, cur, requestLog, outstanding, returnData,
                   outcome, failLog, received, handlerLog>>

\* lines 210-211: the runnable's invoke calls llm.invoke, whose _generate runs
\* up to its await
StructuredInvoked ==
    /\ mode = "structured"
    /\ pc = "idle"
    /\ itemIndex < MaxCalls
    /\ \E messages \in env.messages :
        LET requestId == RequestId(itemIndex + 1)
        IN /\ cur' = [item |-> itemIndex, messages |-> messages, requestId |-> requestId]
           /\ requestLog' = Append(requestLog,
                [item |-> itemIndex,
                 options |-> InferRequestOptions(chat, PromptText(messages), requestId)])
    /\ outstanding' = outstanding + 1
    /\ pc' = "awaiting"
    /\ outcome' = NoOutcome
    /\ received' = NothingReceived
    /\ UNCHANGED <<inputs, chat, serverUrl, itemIndex, returnData, failLog, handlerLog>>

\* lines 211-219: the request resolves, _generate ends and the reply is parsed
StructuredResolved ==
    /\ mode = "structured"
    /\ pc = "awaiting"
    /\ \E responseData \in env.responses :
        /\ received' = [kind |-> "response", item |-> itemIndex, value |-> responseData]
        /\ outcome' = AfterInvoke(InferExtract(chat, responseData, cur.requestId))
    /\ outstanding' = outstanding - 1
    /\ itemIndex' = itemIndex + 1
    /\ pc' = "idle"
    /\ UNCHANGED <<inputs, chat, serverUrl, cur, requestLog, returnData, failLog, handlerLog>>

\* line 211: the request rejects and what _generate raises leaves invoke
StructuredRejected ==
    /\ mode = "structured"
    /\ pc = "awaiting"
    /\ \E error \in env.errors, raised \in env.handler :
        /\ received' = [kind |-> "error", item |-> itemIndex, value |-> error]
        /\ handlerLog' = IF chat.onFailedAttemptHandler
                         THEN Append(handlerLog, [item |-> itemIndex, error |-> error])
                         ELSE handlerLog
        /\ failLog' = Append(failLog, [item |-> itemIndex, error |-> error])
        /\ outcome' = AfterInvoke(CatchRejected(chat, error, raised, <<"Unknown error">>))
    /\ outstanding' = outstanding - 1
    /\ itemIndex' = itemIndex + 1
    /\ pc' = "idle"
    /\ UNCHANGED <<inputs, chat, serverUrl, cur, requestLog, returnData>>

NextStructured ==
    \/ StructuredSupplyData
    \/ StructuredInvoked
    \/ StructuredResolved
    \/ StructuredRejected

(***************************************************************************)
(* getModels, the loadOptions method of the /generate node                 *)
(* (LmChatNvidiaTriton.ts, lines 173-215).                                 *)
(***************************************************************************)
\* an entry of the selection list
Option(name, value) == [name |-> name, value |-> value]

\* line 179
ServerUrlNotConfigured ==
    Option(<<"Error: Triton Server URL not configured in credentials.">>, Str(<<>>))

\* line 202
NoReadyModels ==
    Option(<<"No ready models found or repository index empty.">>, Str(<<>>))

\* line 206
UnexpectedFormat == Option(<<"Error fetching models (unexpected format)">>, Str(<<>>))

\* lines 183 and 186-190: the argument of helpers.httpRequest
RepositoryIndexRequest(url) ==
    [method |-> "GET", url |-> url \o <<"/", "v2", "/", "repository", "/", "index">>,
     json |-> TRUE]

\* line 194: the callback of the readiness filter
IsReady_AnyState(model) == Truthy(Get(model, "name"))

IsReady(model) ==
    /\ Truthy(Get(model, "name"))
    /\ \/ Get(model, "state") = Str(<<"READY">>)
       \/ ~Truthy(Get(model, "state"))

\* lines 195-198: the callback of map
ModelOption(model) ==
    Option(IF Truthy(Get(model, "version"))
           THEN ToJsString(model.f["name"]) \o <<" (v">>
                    \o ToJsString(model.f["version"]) \o <<")">>
           ELSE ToJsString(model.f["name"]),
           model.f["name"])

\* line 194: response.filter(...)
RECURSIVE ReadyModels(_)
ReadyModels(response) ==
    IF response = <<>> THEN <<>>
    ELSE (IF IsReady(Head(response)) THEN <<Head(response)>> ELSE <<>>)
            \o ReadyModels(Tail(response))

\* line 200: self.findIndex((m) => m.value === model.value), counted from 1
FindIndex(self, value) ==
    CHOOSE i \in DOMAIN self :
        /\ self[i].value = value
        /\ \A j \in DOMAIN self : self[j].value = value => i <= j

\* lines 199-201
UniqueModels_KeepAll(models) == models

UniqueModels(models) ==
    LET kept == {i \in DOMAIN models : i = FindIndex(models, models[i].value)}
        Pick[i \in 0..Len(models)] ==
            IF i = 0 THEN <<>>
            ELSE IF i \in kept THEN Append(Pick[i - 1], models[i]) ELSE Pick[i - 1]
    IN Pick[Len(models)]

\* lines 192-206: what getModels returns for a response
ModelOptions_MayBeEmpty(response) ==
    IF IsArray(response)
    THEN UniqueModels([i \in DOMAIN ReadyModels(response.a) |->
                            ModelOption(ReadyModels(response.a)[i])])
    ELSE <<UnexpectedFormat>>

ModelOptions(response) ==
    IF IsArray(response)
    THEN LET ready == ReadyModels(response.a)
             models == [i \in DOMAIN ready |-> ModelOption(ready[i])]
             uniqueModels == UniqueModels(models)
         IN IF Len(uniqueModels) = 0 THEN <<NoReadyModels>> ELSE uniqueModels
    ELSE <<UnexpectedFormat>>

\* lines 208-211: the name of the entry returned after a failed request
ErrorMessage_MessageOnly(error, url) == <<"Network/other error: ">> \o error.message

ErrorMessage(error, url) ==
    IF Contains(error.message, <<"ECONNREFUSED">>)
    THEN <<"Connection refused at ">> \o url \o <<".">>
    ELSE IF Truthy(Get(error.response, "data"))
    THEN <<"Error from Triton: ">>
            \o (IF JsonStringify(error.response.f["data"]) # <<>>
                THEN JsonStringify(error.response.f["data"])
                ELSE error.message)
    ELSE IF error.message # <<>>
    THEN <<"Network/other error: ">> \o error.message
    ELSE <<"Error fetching models. Check Triton server URL and network.">>

\* what getModels hands back to the host
Returned(options) == [kind |-> "returned", output |-> options]

\* lines 174-190: the credential is read; without a server URL the method
\* returns at once, otherwise the repository index is requested
GetModelsStart ==
    /\ mode = "models"
    /\ pc = "start"
    /\ IF ~Truthy(Get(credentials, "serverUrl"))
       THEN /\ outcome' = Returned(<<ServerUrlNotConfigured>>)
            /\ pc' = "done"
            /\ UNCHANGED <<serverUrl, requestLog, outstanding>>
       ELSE /\ serverUrl' = StripTrailingSlashes(credentials.f["serverUrl"].s)
            /\ requestLog' = Append(requestLog,
                                    [item |-> 0,
                                     options |-> RepositoryIndexRequest(serverUrl')])
            /\ outstanding' = outstanding + 1
            /\ pc' = "awaiting"
            /\ outcome' = outcome
    /\ UNCHANGED <<inputs, chat, itemIndex, cur, returnData, failLog, received, handlerLog>>

\* lines 192-206: the request resolves
GetModelsResolved ==
    /\ mode = "models"
    /\ pc = "awaiting"
    /\ \E response \in env.responses :
        /\ received' = [kind |-> "response", item |-> 0, value |-> response]
        /\ outcome' = Returned(ModelOptions(response))
    /\ outstanding' = outstanding - 1
    /\ pc' = "done"
    /\ UNCHANGED <<inputs, chat, serverUrl, itemIndex, cur, requestLog, returnData,
                   failLog, handlerLog>>

\* lines 207-214: the request rejects
GetModelsRejected ==
    /\ mode = "models"
    /\ pc = "awaiting"
    /\ \E error \in env.errors :
        /\ received' = [kind |-> "error", item |-> 0, value |-> error]
        /\ failLog' = Append(failLog, [item |-> 0, error |-> error])
        /\ outcome' = Returned(<<Option(ErrorMessage(error, serverUrl), Str(<<>>))>>)
    /\ outstanding' = outstanding - 1
    /\ pc' = "done"
    /\ UNCHANGED <<inputs, chat, serverUrl, itemIndex, cur, requestLog, returnData,
                   handlerLog>>

NextModels ==
    \/ GetModelsStart
    \/ GetModelsResolved
    \/ GetModelsRejected

(***************************************************************************)
(* NvidiaTritonApi, the credential type (NvidiaTritonApi.credentials.ts     *)
(* declares it twice: lines 8-66 with the property 'baseUrl', lines 75-124  *)
(* with 'tritonServerUrl' and 'apiKey').                                    *)
(***************************************************************************)
\* the declaration a stored credential was made with, by the property it has
DeclarationOf(creds) == IF HasProperty(creds, "tritonServerUrl") THEN "second" ELSE "first"

\* the expression ={{$credentials.<property>}} of lines 56 and 107
CredentialExpression(creds, property) ==
    IF Get(creds, property).t = "string" THEN creds.f[property].s ELSE <<>>

HealthPath == <<"/", "v2", "/", "health", "/", "live">>

\* lines 52-65: the test request of the first declaration
FirstTestRequest(creds) ==
    [baseURL |-> CredentialExpression(creds, "baseUrl"),
     url |-> HealthPath,
     method |-> "GET",
     headers |-> Obj(EmptyObject)]

\* lines 112-123 and 100-110: the test request of the second declaration, the
\* method left to the host's default, with the header 'authenticate' adds
SecondTestRequest(creds) ==
    [baseURL |-> LocalHost,
     url |-> HealthPath,
     method |-> "GET",
     headers |-> Obj("Authorization" :>
                        Str(<<"Bearer ">> \o CredentialExpression(creds, "apiKey")))]

TestRequest(creds) ==
    IF DeclarationOf(creds) = "second" THEN SecondTestRequest(creds)
    ELSE FirstTestRequest(creds)

\* the host runs the connectivity test of a stored credential
CredentialTestStart ==
    /\ mode = "credential"
    /\ pc = "start"
    /\ requestLog' = Append(requestLog, [item |-> 0, options |-> TestRequest(credentials)])
    /\ outstanding' = outstanding + 1
    /\ pc' = "awaiting"
    /\ UNCHANGED <<inputs, chat, serverUrl, itemIndex, cur, returnData, outcome, failLog,
                   received, handlerLog>>

\* the health endpoint answers, or the request fails
CredentialTestEnd ==
    /\ mode = "credential"
    /\ pc = "awaiting"
    /\ \/ \E response \in env.responses :
            /\ received' = [kind |-> "response", item |-> 0, value |-> response]
            /\ outcome' = [kind |-> "returned", output |-> "OK"]
            /\ failLog' = failLog
       \/ \E error \in env.errors :
            /\ received' = [kind |-> "error", item |-> 0, value |-> error]
            /\ outcome' = [kind |-> "returned", output |-> "Error"]
            /\ failLog' = Append(failLog, [item |-> 0, error |-> error])
    /\ outstanding' = outstanding - 1
    /\ pc' = "done"
    /\ UNCHANGED <<inputs, chat, serverUrl, itemIndex, cur, requestLog, returnData,
                   handlerLog>>

NextCredential ==
    \/ CredentialTestStart
    \/ CredentialTestEnd

(***************************************************************************)
(* The inputs execute is run on.                                           *)
(***************************************************************************)
\* every sequence over S of length 0..n
SeqsUpTo(S, n) == UNION {[1..k -> S] : k \in 0..n}

MockTriton == <<"http:", "/", "/", "mock-triton:8000">>

\* lines 84-91: the default of the 'parameters' collection
DefaultParamsCollection ==
    <<[name |-> "stream", value |-> Bool(FALSE)],
      [name |-> "temperature", value |-> Num(7, -1)],
      [name |-> "max_tokens", value |-> Num(256, 0)]>>

\* lines 41-168: the node's properties at their defaults, with a model name and
\* a text input filled in
DefaultParameters ==
    [modelName |-> <<"llama2vllm">>,
     textInput |-> <<"hi">>,
     outputFieldNameN8n |-> "completion",
     advancedOptions |-> FALSE,
     endpointPathSegment |-> <<"/", "generate">>,
     requestInputField |-> "text_input",
     responseOutputField |-> "text_output",
     paramsCollection |-> DefaultParamsCollection]

HelloResponse == Obj("text_output" :> Str(<<"hello">>))

GenerateResponses ==
    {HelloResponse,
     Obj("my_text_out" :> Str(<<"Custom output text.">>)),
     Obj("text_output" :> Num(42, 0)),
     Obj(EmptyObject),
     Str(<<"upstream connect error">>),
     Null}

\* item parameters that differ in the required fields
RequiredFieldParameters ==
    {[DefaultParameters EXCEPT !.modelName = m, !.textInput = t, !.requestInputField = f] :
        m \in {<<>>, <<"llama2vllm">>}, t \in {<<>>, <<"hi">>},
        f \in {"", "text_input", "parameters"}}

\* item parameters that differ in the field names of the response and the output
FieldNameParameters ==
    {[DefaultParameters EXCEPT !.responseOutputField = r, !.outputFieldNameN8n = o] :
        r \in {"text_output", "my_text_out"},
        o \in {"completion", "rawTritonResponse"}}

\* item parameters that differ in the advanced options: the defaults, the names
\* of the test of lines 137-166, and a path segment without its leading slash
AdvancedParameters ==
    {[DefaultParameters EXCEPT !.advancedOptions = a,
                               !.endpointPathSegment = o[1],
                               !.requestInputField = o[2],
                               !.responseOutputField = o[3]] :
        a \in BOOLEAN,
        o \in {<<<<"/", "generate">>, "text_input", "text_output">>,
               <<<<"/", "custom_generate">>, "my_text_in", "my_text_out">>,
               <<<<"infer">>, "text_input", "my_text_out">>}}

Chars(v) == Str(v)

ParameterValues ==
    {Chars(<<"t", "r", "u", "e">>), Chars(<<"f", "a", "l", "s", "e">>),
     Chars(<<"T", "R", "U", "E">>), Chars(<<"F", "a", "l", "s", "e">>),
     Chars(<<"0", ".", "1">>), Chars(<<"2", "5", "6">>), Chars(<<"-", "5">>),
     Chars(<<"1", "e", "3">>), Chars(<<" ", "7">>), Chars(<<".", "5">>),
     Chars(<<"a", "b", "c">>), Chars(<<"1", "2", "a", "b", "c">>), Chars(<<>>),
     Chars(<<"1", "e">>), Chars(<<".">>), Chars(<<"t", "r", "u", "e", " ">>),
     Chars(<<"0", "x", "1", "0">>),
     Bool(TRUE), Num(7, -1), Null}

ParamCollections ==
    LET first == {[name |-> n, value |-> v] :
                    n \in {"", "stream", "temperature"}, v \in ParameterValues}
        second == {[name |-> n, value |-> v] :
                    n \in {"", "stream", "temperature"},
                    v \in {Chars(<<"f", "a", "l", "s", "e">>), Chars(<<"0", ".", "1">>),
                           Chars(<<"a", "b", "c">>), Bool(TRUE)}}
    IN {<<>>} \cup {<<a>> : a \in first} \cup {<<a, b>> : a \in first, b \in second}

ApiKey == <<"secret">>

ServerUrlCredentials ==
    {Obj("serverUrl" :> Str(MockTriton)),
     Obj("serverUrl" :> Str(MockTriton \o <<"/", "/">>)),
     Obj(("serverUrl" :> Str(MockTriton \o <<"/">>)) @@ ("apiKey" :> Str(ApiKey)))}

ExecuteConfigs ==
    {[node |-> RequiredFieldParameters,
      env |-> [responses |-> {HelloResponse},
                  errors |-> {ConnectionRefused, TritonServerError}],
      jsons |-> {"initialData" :> Str(<<"test">>)},
      credentials |-> ServerUrlCredentials \cup {Obj("baseUrl" :> Str(MockTriton))}],
     [node |-> FieldNameParameters,
      env |-> [responses |-> GenerateResponses, errors |-> {TritonServerError}],
      jsons |-> {"initialData" :> Str(<<"test">>),
                 ("completion" :> Str(<<"old">>)) @@ ("rawTritonResponse" :> Num(1, 0))},
      credentials |-> {Obj("serverUrl" :> Str(MockTriton))}],
     [node |-> AdvancedParameters,
      env |-> [responses |-> {HelloResponse,
                              Obj("my_text_out" :> Str(<<"Custom output text.">>))},
                  errors |-> {TritonServerError}],
      jsons |-> {"initialData" :> Str(<<"test">>)},
      credentials |-> {Obj("serverUrl" :> Str(MockTriton))}]}
    \cup
    {[node |-> {[DefaultParameters EXCEPT !.paramsCollection = c]},
      env |-> [responses |-> {HelloResponse}, errors |-> {ConnectionRefused}],
      jsons |-> {"initialData" :> Str(<<"test">>)},
      credentials |-> {Obj("serverUrl" :> Str(MockTriton))}] : c \in ParamCollections}

InitExecute ==
    /\ mode = "execute"
    /\ \E c \in ExecuteConfigs :
        /\ node = c.node
        /\ env = c.env
        /\ credentials \in c.credentials
        /\ items \in SeqsUpTo(c.jsons, MaxItems)
    /\ continueOnFail \in BOOLEAN
    /\ chat = Undefined
    /\ pc = "start"
    /\ serverUrl = <<>>
    /\ itemIndex = 0
    /\ cur = Undefined
    /\ requestLog = <<>>
    /\ outstanding = 0
    /\ returnData = <<>>
    /\ outcome = NoOutcome
    /\ failLog = <<>>
    /\ received = NothingReceived
    /\ handlerLog = <<>>

SpecExecute == InitExecute /\ [][NextExecute]_vars

(***************************************************************************)
(* The inputs the chat models are run on.                                  *)
(***************************************************************************)
\* lines 249-288: the parameters of the /infer node
InferParameters ==
    {[modelName |-> <<"vllm_qwen_qwq">>, inputFieldName |-> "INPUT",
      outputFieldName |-> "OUTPUT", options |-> Obj(EmptyObject)],
     [modelName |-> <<"vllm_qwen_qwq">>, inputFieldName |-> "INPUT",
      outputFieldName |-> "OUTPUT", options |-> Obj("temperature" :> Num(7, -1))],
     [modelName |-> <<"vllm_qwen_qwq">>, inputFieldName |-> "text_input",
      outputFieldName |-> "text_output", options |-> Obj(EmptyObject)]}

\* lines 511-555: the parameters of the /generate node
GenerateParameters ==
    {[modelName |-> <<"llama2vllm">>, options |-> Obj(EmptyObject)],
     [modelName |-> <<"llama2vllm">>,
      options |-> Obj(("temperature" :> Num(7, -1)) @@ ("stream" :> Bool(TRUE)))]}

BaseUrlCredentials ==
    {Obj("baseUrl" :> Str(MockTriton \o <<"/">>)), Obj("serverUrl" :> Str(MockTriton)),
     Obj(("baseUrl" :> Str(MockTriton \o <<"/", "/">>)) @@ ("apiKey" :> Str(ApiKey))),
     Obj(("tritonServerUrl" :> Str(MockTriton)) @@ ("apiKey" :> Str(ApiKey)))}

\* the message lists _generate is called with
MessageLists ==
    {<<>>,
     <<[content |-> Str(<<"You are helpful.">>)], [content |-> Str(<<"What is Triton?">>)]>>,
     <<[content |-> Arr(<<Obj(("type" :> Str(<<"text">>)) @@ ("text" :> Str(<<"hi">>)))>>)]>>}

\* the entries an 'outputs' array of an /infer response is made of
OutputEntries ==
    {Obj(("name" :> Str(<<n>>)) @@ d) :
        n \in {"OUTPUT", "text_output"},
        d \in {EmptyObject,
               "data" :> Str(<<"result">>),
               "data" :> Arr(<<>>),
               "data" :> Arr(<<Str(<<"result">>)>>),
               "data" :> Arr(<<Num(1, 0), Str(<<"late">>)>>)}}
    \cup {Obj("data" :> Arr(<<Str(<<"unnamed">>)>>))}

LaterOutputEntries ==
    {Obj(("name" :> Str(<<n>>)) @@ d) :
        n \in {"OUTPUT", "text_output"},
        d \in {"data" :> Arr(<<>>), "data" :> Arr(<<Str(<<"second">>)>>)}}

InferResponses ==
    {Obj(EmptyObject),
     Obj("outputs" :> Str(<<"OUTPUT">>)),
     Obj("outputs" :> Obj("OUTPUT" :> Arr(<<Str(<<"result">>)>>))),
     Obj("outputs" :> Null),
     Obj(("outputs" :> Arr(<<Obj(("name" :> Str(<<"OUTPUT">>))
                                 @@ ("data" :> Arr(<<Str(<<"result">>)>>)))>>))
         @@ ("id" :> Str(<<"server-id">>)) @@ ("model_name" :> Str(<<"qwq">>))
         @@ ("model_version" :> Str(<<"1">>)))}
    \cup {Obj(("id" :> id)
               @@ ("outputs" :> Arr(<<Obj(("name" :> Str(<<"OUTPUT">>))
                                          @@ ("data" :> Arr(<<Str(<<"result">>)>>)))>>))) :
            id \in {Str(<<>>), Null}}
    \cup {Obj("outputs" :> Arr(<<>>))}
    \cup {Obj("outputs" :> Arr(<<a>>)) : a \in OutputEntries}
    \cup {Obj("outputs" :> Arr(<<a, b>>)) : a \in OutputEntries, b \in LaterOutputEntries}

InitChat ==
    /\ credentials \in BaseUrlCredentials
    /\ items = <<>>
    /\ continueOnFail = FALSE
    /\ chat = Undefined
    /\ pc = "start"
    /\ serverUrl = <<>>
    /\ itemIndex = 0
    /\ cur = Undefined
    /\ requestLog = <<>>
    /\ outstanding = 0
    /\ returnData = <<>>
    /\ outcome = NoOutcome
    /\ failLog = <<>>
    /\ received = NothingReceived
    /\ handlerLog = <<>>

InitInfer ==
    /\ mode = "infer"
    /\ node = InferParameters
    /\ env = [responses |-> InferResponses,
              errors |-> {ConnectionRefused, TritonServerError, ServiceUnavailable,
                          UnnamedError},
              handler |-> {Undefined, HandlerRaised},
              messages |-> MessageLists]
    /\ InitChat

InitGenerate ==
    /\ mode = "generate"
    /\ node = GenerateParameters
    /\ env = [responses |-> GenerateResponses,
              errors |-> {ConnectionRefused, TritonServerError, ServiceUnavailable,
                          UnnamedError},
              handler |-> {Undefined, HandlerRaised},
              messages |-> MessageLists]
    /\ InitChat

SpecInfer == InitInfer /\ [][NextInfer]_vars

(***************************************************************************)
(* The inputs getModels is run on.                                          *)
(***************************************************************************)
\* the entries a repository index is made of
IndexEntries ==
    {Obj(("name" :> Str(<<"model1">>)) @@ ("version" :> Str(<<"1">>))
            @@ ("state" :> Str(<<"READY">>))),
     Obj(("name" :> Str(<<"model2">>)) @@ ("state" :> Str(<<"READY">>))),
     Obj(("name" :> Str(<<"model1">>)) @@ ("version" :> Str(<<"2">>))
            @@ ("state" :> Str(<<"LOADING">>))),
     Obj("name" :> Str(<<"model3">>)),
     Obj(("name" :> Str(<<"model1">>)) @@ ("state" :> Str(<<"READY">>))),
     Obj(("name" :> Str(<<>>)) @@ ("state" :> Str(<<"READY">>))),
     Obj("state" :> Str(<<"READY">>)),
     Obj(("name" :> Str(<<"model2">>)) @@ ("state" :> Str(<<>>))),
     Obj(("name" :> Str(<<"model3">>)) @@ ("state" :> Str(<<"UNAVAILABLE">>))),
     Obj(("name" :> Str(<<"model2">>)) @@ ("version" :> Str(<<"3">>))
            @@ ("state" :> Null))}

\* what the repository-index request is answered with
IndexResponses ==
    {Arr(a) : a \in SeqsUpTo(IndexEntries, MaxModels)}
    \cup {Obj(EmptyObject), Obj("models" :> Arr(<<>>)), Str(<<"Not Found">>), Null}

NetworkError == NewError(<<"Network error">>)

\* the credential getModels may find: none, one without a server URL, one with
ModelsCredentials ==
    {Undefined, Obj(EmptyObject), Obj("serverUrl" :> Str(<<>>)),
     Obj("baseUrl" :> Str(MockTriton))}
    \cup ServerUrlCredentials

InitModels ==
    /\ mode = "models"
    /\ node = {}
    /\ env = [responses |-> IndexResponses,
              errors |-> {ConnectionRefused, TritonServerError, NetworkError,
                          NewError(<<>>)}]
    /\ credentials \in ModelsCredentials
    /\ items = <<>>
    /\ continueOnFail = FALSE
    /\ chat = Undefined
    /\ pc = "start"
    /\ serverUrl = <<>>
    /\ itemIndex = 0
    /\ cur = Undefined
    /\ requestLog = <<>>
    /\ outstanding = 0
    /\ returnData = <<>>
    /\ outcome = NoOutcome
    /\ failLog = <<>>
    /\ received = NothingReceived
    /\ handlerLog = <<>>

SpecModels == InitModels /\ [][NextModels]_vars

(***************************************************************************)
(* The credentials the connectivity test is run on.                        *)
(***************************************************************************)
StoredCredentials ==
    {Obj("baseUrl" :> Str(u)) : u \in {MockTriton, MockTriton \o <<"/">>, LocalHost}}
    \cup {Obj(("tritonServerUrl" :> Str(u)) @@ ("apiKey" :> Str(k))) :
                u \in {MockTriton, LocalHost}, k \in {<<>>, ApiKey}}

InitCredential ==
    /\ mode = "credential"
    /\ node = {}
    /\ env = [responses |-> {Obj(EmptyObject)}, errors |-> {ConnectionRefused}]
    /\ credentials \in StoredCredentials
    /\ items = <<>>
    /\ continueOnFail = FALSE
    /\ chat = Undefined
    /\ pc = "start"
    /\ serverUrl = <<>>
    /\ itemIndex = 0
    /\ cur = Undefined
    /\ requestLog = <<>>
    /\ outstanding = 0
    /\ returnData = <<>>
    /\ outcome = NoOutcome
    /\ failLog = <<>>
    /\ received = NothingReceived
    /\ handlerLog = <<>>

(***************************************************************************)
(* The replies the runnable of withStructuredOutput is run on.             *)
(***************************************************************************)
\* reply texts that are JSON, each with the value it stands for
JsonReplies ==
    {[text |-> <<"{", "\"", "answer", "\"", ":", "4", "2", "}">>,
      value |-> Obj("answer" :> Num(42, 0))],
     [text |-> <<" ", "{", "\"", "a", "\"", ":", " ", "[", "true", ",", "null", "]", ",",
                 "\"", "b", "\"", ":", "\"", "hi", " there", "\"", "}", "\n">>,
      value |-> Obj(("a" :> Arr(<<Bool(TRUE), Null>>))
                    @@ ("b" :> Str(<<"hi", " there">>)))],
     [text |-> <<"[", "]">>, value |-> Arr(<<>>)],
     [text |-> <<"[", "{", "}", ",", "-", "0", ".", "5", "]">>,
      value |-> Arr(<<Obj(EmptyObject), Num(-5, -1)>>)],
     [text |-> <<"\"", "plain", "\"">>, value |-> Str(<<"plain">>)],
     [text |-> <<"1", "e", "3">>, value |-> Num(1, 3)],
     [text |-> <<"4", "2">>, value |-> Num(42, 0)],
     [text |-> <<"null">>, value |-> Null],
     [text |-> <<"false">>, value |-> Bool(FALSE)]}

\* reply texts JSON.parse raises a SyntaxError for
NonJsonReplies ==
    {<<"The answer is 42.">>,
     <<>>,
     <<"{", "\"", "answer", "\"", ":">>,
     <<"{", "\"", "answer", "\"", ":", "4", "2", ",", "}">>,
     <<"{", "answer", ":", "4", "2", "}">>,
     <<"[", "1", ",", "]">>,
     <<"[", "1", "]", "]">>,
     <<"0", "1">>,
     <<"1", ".">>,
     <<"4", "2", " ", "is the answer">>,
     <<"\"", "open">>}

ReplyTexts == {r.text : r \in JsonReplies} \cup NonJsonReplies

\* an /infer response carrying the text as the data of OUTPUT
ReplyResponse(text) ==
    Obj("outputs" :> Arr(<<Obj(("name" :> Str(<<"OUTPUT">>))
                               @@ ("data" :> Arr(<<Str(text)>>)))>>))

StructuredResponses ==
    {ReplyResponse(text) : text \in ReplyTexts}
    \cup {Obj(EmptyObject), Obj("outputs" :> Arr(<<Obj("name" :> Str(<<"OUTPUT">>))>>))}

InitStructured ==
    /\ mode = "structured"
    /\ node = {[modelName |-> <<"vllm_qwen_qwq">>, inputFieldName |-> "INPUT",
                outputFieldName |-> "OUTPUT", options |-> Obj(EmptyObject)]}
    /\ env = [responses |-> StructuredResponses,
              errors |-> {ConnectionRefused, ServiceUnavailable},
              handler |-> {Undefined, HandlerRaised},
              messages |-> MessageLists]
    /\ InitChat

SpecStructured == InitStructured /\ [][NextStructured]_vars

\* the adapters and the credential test; the runnable of withStructuredOutput,
\* which wraps the /infer model, is run under SpecStructured
Init == InitExecute \/ InitInfer \/ InitGenerate \/ InitModels \/ InitCredential

Next == NextExecute \/ NextInfer \/ NextGenerate \/ NextModels \/ NextCredential

Spec == Init /\ [][Next]_vars

(***************************************************************************)
(* Properties.                                                             *)
(***************************************************************************)
\* the positions of returnData that hold a record of input item k
RecordsOf(k) == {i \in DOMAIN returnData : returnData[i].pairedItem.item = k}

\* the positions of requestLog that hold a request of input item (or call) k
RequestsOf(k) == {i \in DOMAIN requestLog : requestLog[i].item = k}

IsErrorRecord(r) == "error" \in DOMAIN r

\* C1: with continue-on-fail active, every item of execute whose processing
\* failed (validation or HTTP) has exactly one record, which carries the item's
\* json unchanged and an error object with the failure's message; the failure
\* never ends the run, the loop moves past the item, and a finished run has
\* returned one record for every input item, each item that passed validation
\* having been requested.
C1_ContinueOnFailCapturesFailure ==
    (mode = "execute" /\ continueOnFail /\ failLog # <<>>) =>
        /\ \A i \in DOMAIN failLog :
            LET k == failLog[i].item
            IN /\ Cardinality(RecordsOf(k)) = 1
               /\ \A j \in RecordsOf(k) :
                    /\ IsErrorRecord(returnData[j])
                    /\ returnData[j].json = items[k + 1]
                    /\ returnData[j].error.message = failLog[i].error.message
               /\ itemIndex > k
        /\ outcome.kind # "thrown"
        /\ pc = "done" =>
            /\ outcome = [kind |-> "returned", output |-> <<returnData>>]
            /\ \A k \in 0..(Len(items) - 1) :
                /\ Cardinality(RecordsOf(k)) = 1
                /\ \/ Cardinality(RequestsOf(k)) = 1
                   \/ \E i \in DOMAIN failLog :
                        /\ failLog[i].item = k
                        /\ failLog[i].error.message \in {ModelNameRequired, TextInputRequired}

C1_Witness ==
    /\ mode = "execute"
    /\ continueOnFail
    /\ pc = "done"
    /\ Len(items) = 2
    /\ Len(failLog) = 1
    /\ failLog[1] = [item |-> 0, error |-> ConnectionRefused]
    /\ Len(returnData) = 2
    /\ IsErrorRecord(returnData[1])
    /\ ~IsErrorRecord(returnData[2])
    /\ Cardinality(RequestsOf(1)) = 1

\* C2: with continue-on-fail inactive, the first failing item k ends execute:
\* an error carrying the failure's message is raised, nothing is returned, no
\* request is issued for an item after k and none is left outstanding.
C2_FirstFailureHalts ==
    (mode = "execute" /\ ~continueOnFail /\ failLog # <<>>) =>
        /\ Len(failLog) = 1
        /\ pc = "done"
        /\ outcome.kind = "thrown"
        /\ Contains(outcome.error.message, failLog[1].error.message)
        /\ outstanding = 0
        /\ \A i \in DOMAIN requestLog : requestLog[i].item <= failLog[1].item

C2_Witness ==
    /\ mode = "execute"
    /\ ~continueOnFail
    /\ Len(items) = 2
    /\ Len(failLog) = 1
    /\ failLog[1].item = 0
    /\ received.kind = "error"
    /\ outcome.kind = "thrown"
    /\ RequestsOf(1) = {}

C2_WitnessEarlierRecordsDropped ==
    /\ mode = "execute"
    /\ ~continueOnFail
    /\ Len(failLog) = 1
    /\ failLog[1].item = 1
    /\ Len(returnData) = 1
    /\ outcome.kind = "thrown"

\* item k of execute was rejected by validation: a failure with one of the two
\* descriptive messages is recorded for it and no request was issued for it
RejectedWith(k, message) ==
    /\ \E i \in DOMAIN failLog : failLog[i].item = k /\ failLog[i].error.message = message
    /\ RequestsOf(k) = {}

\* C3 as stated: every item whose model name is empty or whose text input is
\* empty fails with the descriptive error and no HTTP request is issued for it.
C3_EmptyRequiredFieldRejected ==
    (mode = "execute" /\ cur # Undefined) =>
        /\ cur.parameters.modelName = <<>> =>
            RejectedWith(cur.item, ModelNameRequired)
        /\ (cur.parameters.modelName # <<>> /\ cur.parameters.textInput = <<>>) =>
            RejectedWith(cur.item, TextInputRequired)

\* C3 (amended): every item whose model name is empty, or whose text input is
\* empty while the request input field name is not empty, fails with the
\* descriptive error and no HTTP request is issued for it.
C3_RequiredFieldRejected ==
    (mode = "execute" /\ cur # Undefined) =>
        /\ cur.parameters.modelName = <<>> =>
            RejectedWith(cur.item, ModelNameRequired)
        /\ (cur.parameters.modelName # <<>> /\ cur.parameters.textInput = <<>>
                /\ cur.parameters.requestInputField # "") =>
            RejectedWith(cur.item, TextInputRequired)

C3_Witness ==
    /\ mode = "execute"
    /\ cur # Undefined
    /\ cur.item = 1
    /\ cur.parameters.modelName # <<>>
    /\ cur.parameters.textInput = <<>>
    /\ cur.parameters.requestInputField = "text_input"
    /\ RejectedWith(1, TextInputRequired)
    /\ Cardinality(RequestsOf(0)) = 1

\* the items of execute whose processing is over
FinishedItems ==
    {k \in 0..(Len(items) - 1) :
        k < itemIndex \/ (\E i \in DOMAIN failLog : failLog[i].item = k)}

RejectedByValidation(k) ==
    \E i \in DOMAIN failLog :
        /\ failLog[i].item = k
        /\ failLog[i].error.message \in {ModelNameRequired, TextInputRequired}

\* C4 as stated: every input item execute has processed, and every _generate
\* call of a chat model, issued exactly one HTTP request.
C4_ExactlyOneRequestEach ==
    /\ mode = "execute" => \A k \in FinishedItems : Cardinality(RequestsOf(k)) = 1
    /\ mode \in {"infer", "generate"} =>
        \A k \in 0..(itemIndex - 1) : Cardinality(RequestsOf(k)) = 1

\* C4 (amended): execute issues at most one HTTP request per input item:
\* exactly one for a processed item that passed validation, none for an item
\* validation rejected; every _generate call of a chat model issues exactly one
\* request; a failed request is never issued again.
C4_OneRequestUnlessRejected ==
    /\ mode = "execute" =>
        /\ \A k \in 0..(Len(items) - 1) : Cardinality(RequestsOf(k)) <= 1
        /\ \A k \in FinishedItems :
            Cardinality(RequestsOf(k)) = IF RejectedByValidation(k) THEN 0 ELSE 1
        /\ Len(requestLog) <= Len(items)
    /\ mode \in {"infer", "generate"} =>
        /\ \A k \in 0..(itemIndex - 1) : Cardinality(RequestsOf(k)) = 1
        /\ Len(requestLog) = itemIndex + outstanding
        /\ outstanding = IF pc = "awaiting" THEN 1 ELSE 0

C4_Witness ==
    /\ mode = "execute"
    /\ continueOnFail
    /\ pc = "done"
    /\ Len(items) = 2
    /\ RejectedByValidation(0)
    /\ RequestsOf(0) = {}
    /\ Cardinality(RequestsOf(1)) = 1
    /\ received.kind = "error"
    /\ Len(requestLog) = 1

C4_WitnessChat ==
    /\ mode = "generate"
    /\ itemIndex = 2
    /\ Len(failLog) = 2
    /\ Len(requestLog) = 2

\* C5: execute never has more than one request outstanding, a request is
\* outstanding exactly while execute waits for it, and the requests are issued
\* in the order of the input items.
C5_OneOutstandingInOrder ==
    mode = "execute" =>
        /\ outstanding <= 1
        /\ outstanding = IF pc = "awaiting" THEN 1 ELSE 0
        /\ \A i, j \in DOMAIN requestLog : i < j => requestLog[i].item < requestLog[j].item
        /\ \A i \in DOMAIN requestLog : requestLog[i].item <= itemIndex

C5_Witness ==
    /\ mode = "execute"
    /\ pc = "awaiting"
    /\ outstanding = 1
    /\ Len(requestLog) = 2
    /\ requestLog[1].item = 0
    /\ requestLog[2].item = 1
    /\ Len(returnData) = 1

\* the record execute pushed for the response it has just received
LastRecord == returnData[Len(returnData)]

\* execute has just pushed the record of a successfully processed item
ItemSucceeded ==
    /\ mode = "execute"
    /\ received.kind = "response"
    /\ cur # Undefined
    /\ cur.item = received.item
    /\ returnData # <<>>

\* the text of a response whose configured output field holds a string
HasText(responseData, field) == Get(responseData, field).t = "string"

\* C6 as stated: the record of a successfully processed item holds every field
\* of the item's json with its original value, the configured output field
\* holding the text of the response's configured field, and rawTritonResponse
\* holding the whole response.
C6_RecordKeepsInputAddsText ==
    ItemSucceeded =>
        LET json == items[cur.item + 1]
            p == cur.parameters
            out == LastRecord.json
        IN /\ \A k \in DOMAIN json : k \in DOMAIN out /\ out[k] = json[k]
           /\ HasText(received.value, p.responseOutputField) =>
                /\ p.outputFieldNameN8n \in DOMAIN out
                /\ out[p.outputFieldNameN8n] = received.value.f[p.responseOutputField]
           /\ "rawTritonResponse" \in DOMAIN out
           /\ out["rawTritonResponse"] = received.value

\* C6 (amended): the record of a successfully processed item holds every field
\* of the item's json that is named neither as the configured output field nor
\* rawTritonResponse with its original value, rawTritonResponse holding the
\* whole response, and, unless the configured output field is itself named
\* rawTritonResponse, the configured output field holding the text of the
\* response's configured field; the record has no other field and is paired
\* with the item.
C6_RecordKeepsOtherInputAddsText ==
    ItemSucceeded =>
        LET json == items[cur.item + 1]
            p == cur.parameters
            out == LastRecord.json
        IN /\ DOMAIN out = DOMAIN json \cup {p.outputFieldNameN8n, "rawTritonResponse"}
           /\ \A k \in DOMAIN json \ {p.outputFieldNameN8n, "rawTritonResponse"} :
                out[k] = json[k]
           /\ (HasText(received.value, p.responseOutputField)
                    /\ p.outputFieldNameN8n # "rawTritonResponse") =>
                out[p.outputFieldNameN8n] = received.value.f[p.responseOutputField]
           /\ out["rawTritonResponse"] = received.value
           /\ LastRecord.pairedItem = [item |-> cur.item]
           /\ ~IsErrorRecord(LastRecord)

C6_Witness ==
    /\ ItemSucceeded
    /\ cur.item = 1
    /\ cur.parameters.outputFieldNameN8n = "completion"
    /\ cur.parameters.responseOutputField = "text_output"
    /\ received.value = HelloResponse
    /\ items[2] = ("completion" :> Str(<<"old">>)) @@ ("rawTritonResponse" :> Num(1, 0))
    /\ LastRecord.json["completion"] = Str(<<"hello">>)

\* the response execute or the /generate model received lacks the field the
\* adapter is configured to read, or holds something other than a string there
LacksText ==
    /\ received.kind = "response"
    /\ \/ mode = "execute" /\ cur # Undefined /\ cur.item = received.item
          /\ ~HasText(received.value, cur.parameters.responseOutputField)
       \/ mode = "generate" /\ ~HasText(received.value, "text_output")

\* C7 as stated: when the configured output field of a generate-protocol
\* response is absent or not a string, the invocation fails with an error whose
\* message names the field and includes the serialized response, in execute and
\* in the /generate chat model alike.
C7_MissingTextFails ==
    LacksText =>
        /\ mode = "execute" =>
            \E i \in DOMAIN failLog :
                /\ failLog[i].item = received.item
                /\ Contains(failLog[i].error.message, <<cur.parameters.responseOutputField>>)
                /\ Contains(failLog[i].error.message, JsonStringify(received.value))
        /\ mode = "generate" =>
            /\ outcome.kind = "thrown"
            /\ Contains(outcome.error.message, <<"text_output">>)
            /\ Contains(outcome.error.message, JsonStringify(received.value))

\* C7, the part the code keeps: the /generate chat model raises that error.
C7_GenerateModelRaises ==
    (LacksText /\ mode = "generate") =>
        /\ outcome.kind = "thrown"
        /\ Contains(outcome.error.message, <<"text_output">>)
        /\ Contains(outcome.error.message, JsonStringify(received.value))

\* C7, what execute does instead: the item counts as processed, its record
\* holds the field's string form (empty when the field is absent) and no
\* failure is recorded.
C7_ExecuteEmitsRecord ==
    (LacksText /\ mode = "execute") =>
        /\ \A i \in DOMAIN failLog : failLog[i].item # received.item
        /\ outcome.kind # "thrown"
        /\ ~IsErrorRecord(LastRecord)
        /\ LastRecord.pairedItem.item = received.item
        /\ (HasProperty(received.value, cur.parameters.responseOutputField)
                \/ cur.parameters.outputFieldNameN8n = "rawTritonResponse"
                \/ LastRecord.json[cur.parameters.outputFieldNameN8n] = Str(<<>>))

C7_ExecuteWitness ==
    /\ LacksText
    /\ mode = "execute"
    /\ received.value = Obj(EmptyObject)
    /\ cur.parameters.outputFieldNameN8n = "completion"
    /\ LastRecord.json["completion"] = Str(<<>>)
    /\ pc = "done"
    /\ outcome.kind = "returned"

\* the /infer model has just received a response
InferReceived == mode = "infer" /\ received.kind = "response"

\* the 'outputs' of the response the /infer model received
ReceivedOutputs == Get(received.value, "outputs")

\* the positions of 'outputs' whose entry is named as the model's output field
NamedEntries ==
    {i \in DOMAIN ReceivedOutputs.a :
        Get(ReceivedOutputs.a[i], "name") = Str(<<chat.outputFieldName>>)}

FirstNamedEntry ==
    ReceivedOutputs.a[CHOOSE i \in NamedEntries : \A j \in NamedEntries : i <= j]

\* a 'data' value that is missing, not an array, or an empty array
NoData(data) == data.t # "array" \/ data.a = <<>>

\* the message of the error _generate ended with starts with text
RaisedStarting(text) ==
    /\ outcome.kind = "thrown"
    /\ outcome.error.message # <<>>
    /\ Head(outcome.error.message) = text

OutputsNotFoundHead == "Invalid response: 'outputs' array not found. Response: "
OutputFieldNotFoundHead == "Output field '"
DataMissingHead == "Data for '"
ExpectedStringHead == "Expected string data for '"

\* C8: the /infer model checks a response whose 'outputs' entries are objects
\* in this order and raises the error of the first check that fails: 'outputs'
\* missing or not an array, no entry named as the output field, the first such
\* entry's 'data' missing, not an array or empty, the first element of 'data'
\* not a string; the four messages differ pairwise and no ChatResult is returned.
C8_ChecksInOrder ==
    InferReceived =>
        /\ Cardinality({OutputsNotFoundHead, OutputFieldNotFoundHead, DataMissingHead,
                        ExpectedStringHead}) = 4
        /\ IF ReceivedOutputs.t # "array" THEN RaisedStarting(OutputsNotFoundHead)
           ELSE IF NamedEntries = {} THEN RaisedStarting(OutputFieldNotFoundHead)
           ELSE IF NoData(Get(FirstNamedEntry, "data")) THEN RaisedStarting(DataMissingHead)
           ELSE IF FirstNamedEntry.f["data"].a[1].t # "string"
                THEN RaisedStarting(ExpectedStringHead)
           ELSE outcome.kind = "result"
        /\ outcome.kind \in {"thrown", "result"}

C8_Witness ==
    /\ InferReceived
    /\ chat.outputFieldName = "OUTPUT"
    /\ received.value =
        Obj("outputs" :> Arr(<<Obj(("name" :> Str(<<"text_output">>))
                                   @@ ("data" :> Arr(<<Str(<<"result">>)>>))),
                               Obj(("name" :> Str(<<"OUTPUT">>)) @@ ("data" :> Arr(<<>>)))>>))
    /\ RaisedStarting(DataMissingHead)

C8_WitnessWrongType ==
    /\ InferReceived
    /\ chat.outputFieldName = "OUTPUT"
    /\ received.value =
        Obj("outputs" :> Arr(<<Obj(("name" :> Str(<<"OUTPUT">>))
                                   @@ ("data" :> Arr(<<Num(1, 0), Str(<<"late">>)>>)))>>))
    /\ RaisedStarting(ExpectedStringHead)

\* an entry of 'outputs' whose 'data' is a non-empty array starting with a string
HasStringData(entry) ==
    /\ ~NoData(Get(entry, "data"))
    /\ entry.f["data"].a[1].t = "string"

\* _generate of the /infer model returned one generation with this text
ReturnedText(text) ==
    /\ outcome.kind = "result"
    /\ Len(outcome.generations) = 1
    /\ outcome.generations[1].text = text.s
    /\ outcome.generations[1].message.content = text

\* C9 as stated: when 'outputs' contains an entry named as the output field
\* whose 'data' is a non-empty array starting with a string, _generate returns
\* one generation whose text and message content are the first element of the
\* first entry so named.
C9_AnyNamedEntryWithText ==
    (InferReceived /\ ReceivedOutputs.t = "array"
        /\ \E i \in NamedEntries : HasStringData(ReceivedOutputs.a[i])) =>
        ReturnedText(FirstNamedEntry.f["data"].a[1])

\* C9 (amended): when 'outputs' is an array of objects and the first entry
\* named as the output field has a 'data' that is a non-empty array starting
\* with a string, _generate returns one generation whose text and message
\* content are that string, whatever the other entries are.
C9_FirstNamedEntryWithText ==
    (InferReceived /\ ReceivedOutputs.t = "array" /\ NamedEntries # {}
        /\ HasStringData(FirstNamedEntry)) =>
        /\ ReturnedText(FirstNamedEntry.f["data"].a[1])
        /\ outcome.llmOutput.raw_response = received.value

C9_Witness ==
    /\ InferReceived
    /\ chat.outputFieldName = "OUTPUT"
    /\ received.value =
        Obj("outputs" :> Arr(<<Obj(("name" :> Str(<<"text_output">>))
                                   @@ ("data" :> Arr(<<Str(<<"result">>)>>))),
                               Obj(("name" :> Str(<<"OUTPUT">>))
                                   @@ ("data" :> Arr(<<Str(<<"second">>)>>)))>>))
    /\ ReturnedText(Str(<<"second">>))

\* execute has just issued the request of the item it is processing
ItemJustRequested ==
    /\ mode = "execute"
    /\ pc = "awaiting"
    /\ cur # Undefined
    /\ requestLog # <<>>
    /\ requestLog[Len(requestLog)].item = cur.item

\* the 'parameters' object of the request execute has just issued
SentParameters == Get(requestLog[Len(requestLog)].options.body, "parameters")

\* the names the entries of a parameter collection carry, the empty one excluded
EntryNames(paramsCollection) ==
    {paramsCollection[i].name : i \in DOMAIN paramsCollection} \ {""}

\* the value of the last entry of the collection that carries the name
LastValueNamed(paramsCollection, name) ==
    LET at == {i \in DOMAIN paramsCollection : paramsCollection[i].name = name}
    IN paramsCollection[CHOOSE i \in at : \A j \in at : j <= i].value

\* strings that are numeric literals, each with the number it denotes
NumericLiterals ==
    {<<Chars(<<"0", ".", "1">>), Num(1, -1)>>,
     <<Chars(<<"2", "5", "6">>), Num(256, 0)>>,
     <<Chars(<<"-", "5">>), Num(-5, 0)>>,
     <<Chars(<<"1", "e", "3">>), Num(1000, 0)>>,
     <<Chars(<<" ", "7">>), Num(7, 0)>>,
     <<Chars(<<".", "5">>), Num(5, -1)>>,
     <<Chars(<<"0", "x", "1", "0">>), Num(16, 0)>>}

\* what the parameter value is to be sent as: "true" and "false" as booleans, a
\* numeric literal as its number, anything else unchanged
StatedCoercion(value) ==
    IF value = Chars(<<"t", "r", "u", "e">>) THEN Bool(TRUE)
    ELSE IF value = Chars(<<"f", "a", "l", "s", "e">>) THEN Bool(FALSE)
    ELSE IF \E l \in NumericLiterals : l[1] = value
         THEN (CHOOSE l \in NumericLiterals : l[1] = value)[2]
    ELSE value

\* C10 as stated: every named parameter entry is sent with "true"/"false" as a
\* boolean, a string that is a numeric literal as that number, any other string
\* unchanged and a non-string value unchanged (of entries sharing a name, the
\* last one is the one sent).
C10_ParametersCoerced ==
    ItemJustRequested =>
        \A name \in EntryNames(cur.parameters.paramsCollection) :
            /\ HasProperty(SentParameters, name)
            /\ SentParameters.f[name] =
                    StatedCoercion(LastValueNamed(cur.parameters.paramsCollection, name))

\* a hexadecimal literal
HexLiteral == Chars(<<"0", "x", "1", "0">>)

\* C10, what the code does: "true"/"false" in any letter case are sent as
\* booleans, a decimal literal as its number, a hexadecimal literal as the
\* number 0, any other value unchanged; a collection without named entries
\* sends no 'parameters' at all.
C10_ParametersAsSent ==
    ItemJustRequested =>
        /\ \A name \in EntryNames(cur.parameters.paramsCollection) :
            LET value == LastValueNamed(cur.parameters.paramsCollection, name)
            IN /\ HasProperty(SentParameters, name)
               /\ SentParameters.f[name] =
                    IF value = Chars(<<"T", "R", "U", "E">>) THEN Bool(TRUE)
                    ELSE IF value = Chars(<<"F", "a", "l", "s", "e">>) THEN Bool(FALSE)
                    ELSE IF value = HexLiteral THEN Num(0, 0)
                    ELSE StatedCoercion(value)
        /\ EntryNames(cur.parameters.paramsCollection) = {} =>
            SentParameters = Undefined
        /\ SentParameters # Undefined =>
            DOMAIN SentParameters.f = EntryNames(cur.parameters.paramsCollection)

C10_HexWitness ==
    /\ ItemJustRequested
    /\ cur.parameters.paramsCollection =
        <<[name |-> "temperature", value |-> HexLiteral],
          [name |-> "stream", value |-> Chars(<<"f", "a", "l", "s", "e">>)]>>
    /\ SentParameters =
        Obj(("temperature" :> Num(0, 0)) @@ ("stream" :> Bool(FALSE)))

\* a chat model has just issued the request of the _generate call it is in
ChatJustRequested ==
    /\ mode \in {"infer", "generate"}
    /\ pc = "awaiting"
    /\ requestLog # <<>>
    /\ requestLog[Len(requestLog)].item = cur.item

\* the body of the request issued last
LastBody == requestLog[Len(requestLog)].options.body

\* the last message of the _generate call holds a string
LastMessageIsText ==
    /\ cur.messages # <<>>
    /\ cur.messages[Len(cur.messages)].content.t = "string"

\* the /infer body's first input carries the name and, as its only datum, the text
InferInputIs(name, text) ==
    /\ Get(LastBody, "inputs").t = "array"
    /\ Len(LastBody.f["inputs"].a) = 1
    /\ Get(LastBody.f["inputs"].a[1], "name") = Str(<<name>>)
    /\ Get(LastBody.f["inputs"].a[1], "data") = Arr(<<text>>)

\* C11 as stated: the designated input field of every request body equals the
\* supplied text: body[requestInputField] in execute, body.text_input in the
\* /generate model, inputs[0].data[0] (under the configured input name) in the
\* /infer model, the text being the last message's string content.
C11_InputFieldIsText ==
    /\ ItemJustRequested =>
        Get(LastBody, cur.parameters.requestInputField) = Str(cur.parameters.textInput)
    /\ (ChatJustRequested /\ LastMessageIsText /\ mode = "generate") =>
        Get(LastBody, "text_input") = cur.messages[Len(cur.messages)].content
    /\ (ChatJustRequested /\ LastMessageIsText /\ mode = "infer") =>
        InferInputIs(chat.inputFieldName, cur.messages[Len(cur.messages)].content)

\* the request input field of execute survives in the body: it has a name, and
\* the 'parameters' mapping is not written over it
InputFieldSurvives(p) ==
    /\ p.requestInputField # ""
    /\ ~(p.requestInputField = "parameters" /\ EntryNames(p.paramsCollection) # {})

\* C11 (amended): the same, except that execute sends the text only under a
\* request input field whose name is not empty and which is not overwritten by
\* the 'parameters' mapping (a field named 'parameters' with at least one named
\* parameter configured); with an empty field name the body carries no text.
C11_InputFieldIsTextWhenKept ==
    /\ (ItemJustRequested /\ InputFieldSurvives(cur.parameters)) =>
        Get(LastBody, cur.parameters.requestInputField) = Str(cur.parameters.textInput)
    /\ (ItemJustRequested /\ cur.parameters.requestInputField = "") =>
        \A k \in DOMAIN LastBody.f : LastBody.f[k] # Str(cur.parameters.textInput)
    /\ (ChatJustRequested /\ LastMessageIsText /\ mode = "generate") =>
        Get(LastBody, "text_input") = cur.messages[Len(cur.messages)].content
    /\ (ChatJustRequested /\ LastMessageIsText /\ mode = "infer") =>
        InferInputIs(chat.inputFieldName, cur.messages[Len(cur.messages)].content)

C11_Witness ==
    /\ ChatJustRequested
    /\ mode = "infer"
    /\ chat.inputFieldName = "INPUT"
    /\ Len(cur.messages) = 2
    /\ InferInputIs("INPUT", Str(<<"What is Triton?">>))

C11_WitnessExecute ==
    /\ ItemJustRequested
    /\ cur.parameters.requestInputField = "text_input"
    /\ cur.parameters.textInput = <<"hi">>
    /\ Get(LastBody, "text_input") = Str(<<"hi">>)

\* C12 as stated: the body execute posts always has the input field and a
\* 'parameters' mapping, which is the empty mapping when the parameter list is
\* empty or every entry has an empty name.
C12_BodyAlwaysHasParameters ==
    (ItemJustRequested /\ cur.parameters.requestInputField = "text_input") =>
        /\ HasProperty(LastBody, "text_input")
        /\ HasProperty(LastBody, "parameters")
        /\ LastBody.f["parameters"].t = "object"
        /\ EntryNames(cur.parameters.paramsCollection) = {} =>
            LastBody.f["parameters"] = Obj(EmptyObject)

\* C12, what the code does: the body has a 'parameters' mapping exactly when
\* some entry of the parameter list has a name; otherwise the body is the
\* input field alone.
C12_ParametersOnlyWhenNamed ==
    (ItemJustRequested /\ cur.parameters.requestInputField = "text_input") =>
        /\ HasProperty(LastBody, "text_input")
        /\ HasProperty(LastBody, "parameters")
            <=> EntryNames(cur.parameters.paramsCollection) # {}
        /\ EntryNames(cur.parameters.paramsCollection) = {} =>
            LastBody = Obj("text_input" :> Str(cur.parameters.textInput))

C12_NoParametersWitness ==
    /\ ItemJustRequested
    /\ cur.parameters.paramsCollection = <<>>
    /\ LastBody = Obj("text_input" :> Str(<<"hi">>))

C12_UnnamedParametersWitness ==
    /\ ItemJustRequested
    /\ cur.parameters.paramsCollection = <<[name |-> "", value |-> Bool(TRUE)]>>
    /\ ~HasProperty(LastBody, "parameters")

\* getModels has received an array as the repository index
IndexReceived ==
    /\ mode = "models"
    /\ received.kind = "response"
    /\ received.value.t = "array"

\* the entries of the repository index getModels received
Index == received.value.a

\* the positions of the index whose entry has a name and whose state is
\* "READY", absent, null or empty
PassingEntries ==
    {i \in DOMAIN Index :
        /\ Get(Index[i], "name").t = "string"
        /\ Get(Index[i], "name").s # <<>>
        /\ Get(Index[i], "state") \in {Str(<<"READY">>), Undefined, Null, Str(<<>>)}}

\* the position of the first passing entry that carries the name
FirstPassing(name) ==
    CHOOSE i \in PassingEntries :
        /\ Index[i].f["name"] = name
        /\ \A j \in PassingEntries : Index[j].f["name"] = name => i <= j

\* the label of an entry: its name, followed by its version when it has one
LabelOf(entry) ==
    IF Get(entry, "version").t = "string" /\ Get(entry, "version").s # <<>>
    THEN entry.f["name"].s \o <<" (v">> \o entry.f["version"].s \o <<")">>
    ELSE entry.f["name"].s

\* C13: for a repository index whose entries are objects, getModels returns
\* each model name at most once; a name is returned iff an entry with that name
\* passes the readiness filter, its label is that of the first such entry, and
\* the options are in the order of those first entries.
C13_EachNameOnceFirstWins ==
    IndexReceived =>
        LET out == outcome.output
            named == {i \in DOMAIN out : out[i].value # Str(<<>>)}
        IN /\ outcome.kind = "returned"
           /\ \A i, j \in DOMAIN out : out[i].value = out[j].value => i = j
           /\ {out[i].value : i \in named} = {Index[i].f["name"] : i \in PassingEntries}
           /\ PassingEntries # {} => named = DOMAIN out
           /\ \A i \in named :
                out[i].name = LabelOf(Index[FirstPassing(out[i].value)])
           /\ \A i, j \in named :
                i < j => FirstPassing(out[i].value) < FirstPassing(out[j].value)

C13_Witness ==
    /\ IndexReceived
    /\ Len(Index) = 3
    /\ Index[1] = Obj(("name" :> Str(<<"model1">>)) @@ ("version" :> Str(<<"2">>))
                        @@ ("state" :> Str(<<"LOADING">>)))
    /\ Index[2] = Obj(("name" :> Str(<<"model1">>)) @@ ("state" :> Str(<<"READY">>)))
    /\ Index[3] = Obj(("name" :> Str(<<"model1">>)) @@ ("version" :> Str(<<"1">>))
                        @@ ("state" :> Str(<<"READY">>)))
    /\ outcome = Returned(<<Option(<<"model1">>, Str(<<"model1">>))>>)

\* the test of part_000, lines 181-202
C13_WitnessOfTheTest ==
    /\ IndexReceived
    /\ Len(Index) = 3
    /\ Index[1] = Obj(("name" :> Str(<<"model1">>)) @@ ("version" :> Str(<<"1">>))
                        @@ ("state" :> Str(<<"READY">>)))
    /\ Index[2] = Obj(("name" :> Str(<<"model2">>)) @@ ("state" :> Str(<<"READY">>)))
    /\ Index[3] = Obj(("name" :> Str(<<"model1">>)) @@ ("version" :> Str(<<"2">>))
                        @@ ("state" :> Str(<<"LOADING">>)))
    /\ outcome = Returned(<<Option(<<"model1", " (v", "1", ")">>, Str(<<"model1">>)),
                            Option(<<"model2">>, Str(<<"model2">>))>>)

\* the options of a result that name a model (the entries with an empty value
\* report that there is none, or an error)
ModelsOffered ==
    {outcome.output[i].value : i \in DOMAIN outcome.output} \ {Str(<<>>)}

\* C14 as stated: a model is offered only if an entry of the index has its
\* non-empty name and a state that is exactly "READY" or no state at all.
C14_OnlyReadyOrStateless ==
    IndexReceived =>
        \A value \in ModelsOffered :
            \E i \in DOMAIN Index :
                /\ Get(Index[i], "name") = value
                /\ \/ Get(Index[i], "state") = Str(<<"READY">>)
                   \/ ~HasProperty(Index[i], "state")

\* C14 (amended): a model is offered only if an entry of the index has its
\* non-empty name and a state that is exactly "READY" or is absent, null or
\* the empty string; an entry with any non-empty state other than "READY"
\* never contributes an option.
C14_OnlyReadyOrNoState ==
    IndexReceived =>
        /\ \A value \in ModelsOffered :
            \E i \in DOMAIN Index :
                /\ Get(Index[i], "name") = value
                /\ value.s # <<>>
                /\ Get(Index[i], "state")
                        \in {Str(<<"READY">>), Undefined, Null, Str(<<>>)}
        /\ \A i \in DOMAIN outcome.output :
            outcome.output[i].value = Str(<<>>) => Len(outcome.output) = 1

C14_Witness ==
    /\ IndexReceived
    /\ Index = <<Obj(("name" :> Str(<<"model2">>)) @@ ("state" :> Str(<<>>))),
                 Obj(("name" :> Str(<<"model3">>)) @@ ("state" :> Str(<<"UNAVAILABLE">>)))>>
    /\ outcome = Returned(<<Option(<<"model2">>, Str(<<"model2">>))>>)

\* getModels has ended
GetModelsEnded == mode = "models" /\ pc = "done"

\* C15: getModels never returns an empty list; for an index that is empty or
\* in which no entry passes the readiness filter it returns exactly the one
\* entry 'No ready models found or repository index empty.' with an empty value.
C15_NeverEmptyList ==
    /\ GetModelsEnded =>
        /\ outcome.kind = "returned"
        /\ Len(outcome.output) >= 1
    /\ (IndexReceived /\ PassingEntries = {}) =>
        outcome = Returned(<<[name |-> <<"No ready models found or repository index empty.">>,
                              value |-> Str(<<>>)]>>)

C15_Witness ==
    /\ IndexReceived
    /\ Len(Index) = 2
    /\ Get(Index[1], "state") = Str(<<"LOADING">>)
    /\ Get(Index[2], "state") = Str(<<"UNAVAILABLE">>)
    /\ Len(outcome.output) = 1
    /\ outcome.output[1].value = Str(<<>>)

C15_WitnessEmptyIndex ==
    /\ IndexReceived
    /\ Index = <<>>
    /\ outcome = Returned(<<NoReadyModels>>)

\* getModels returned exactly one entry with an empty value and this name
ReturnedSentinel(name) ==
    /\ outcome.kind = "returned"
    /\ Len(outcome.output) = 1
    /\ outcome.output[1].value = Str(<<>>)
    /\ outcome.output[1].name = name

\* getModels returned exactly one entry with an empty value
ReturnedOneSentinel ==
    /\ outcome.kind = "returned"
    /\ Len(outcome.output) = 1
    /\ outcome.output[1].value = Str(<<>>)
    /\ outcome.output[1].name # <<>>

\* the credential is missing or carries no server URL
NoServerUrl ==
    \/ credentials = Undefined
    \/ ~HasProperty(credentials, "serverUrl")
    \/ credentials.f["serverUrl"] = Str(<<>>)

C16_WitnessNoCredential ==
    /\ GetModelsEnded
    /\ credentials = Undefined
    /\ requestLog = <<>>
    /\ ReturnedOneSentinel

C16_WitnessNetworkError ==
    /\ GetModelsEnded
    /\ received.kind = "error"
    /\ ReturnedSentinel(<<"Network/other error: ", "Network error">>)

\* execute re-raised the failure of a request whose response body reports a detail
PropagatedWithDetail ==
    /\ mode = "execute"
    /\ ~continueOnFail
    /\ received.kind = "error"
    /\ outcome.kind = "thrown"
    /\ Truthy(Get(Get(received.value.response, "data"), "error"))

\* C17 as stated: when execute propagates a failed request with transport
\* message M and server-reported detail D, the raised message contains the
\* contiguous text 'Triton API Error: M. Server detail: D'.
C17_MessageThenDetail ==
    PropagatedWithDetail =>
        \/ Contains(outcome.error.message,
                    <<"Triton API Error: ">> \o received.value.message
                        \o <<".", " Server detail: ">>
                        \o received.value.response.f["data"].f["error"].s)
        \/ Contains(outcome.error.message,
                    <<"Triton API Error: ">> \o received.value.message
                        \o <<". Server detail: ">>
                        \o received.value.response.f["data"].f["error"].s)

\* C17, what the code raises: 'Triton API Error: M. Check node parameters and
\* Triton server logs. Server detail: D'.
C17_MessageAdviceDetail ==
    PropagatedWithDetail =>
        outcome.error.message =
            <<"Triton API Error: ">> \o received.value.message
                \o <<". Check node parameters and Triton server logs.">>
                \o <<" Server detail: ">>
                \o received.value.response.f["data"].f["error"].s

C17_PropagatedWitness ==
    /\ PropagatedWithDetail
    /\ received.value = TritonServerError
    /\ outcome.error.message =
        <<"Triton API Error: ", "Triton server error",
          ". Check node parameters and Triton server logs.",
          " Server detail: ", "Internal server error">>


(***************************************************************************)
(* C18: the URL of a request                                               *)
(***************************************************************************)
Adapters == {"execute", "models", "infer", "generate"}

\* the server URL a credential carries, under whichever property of the two
\* declarations of the credential type or of the node's own interface
ConfiguredUrl(creds) ==
    IF Get(creds, "serverUrl").t = "string" THEN creds.f["serverUrl"].s
    ELSE IF Get(creds, "baseUrl").t = "string" THEN creds.f["baseUrl"].s
    ELSE IF Get(creds, "tritonServerUrl").t = "string" THEN creds.f["tritonServerUrl"].s
    ELSE <<>>

\* u with k >= 0 trailing '/' taken off, said without the code's replace
WithoutTrailingSlashes(u) ==
    CHOOSE p \in {SubSeq(u, 1, n) : n \in 0..Len(u)} :
        /\ p = <<>> \/ p[Len(p)] # "/"
        /\ \A i \in (Len(p) + 1)..Len(u) : u[i] = "/"

StartsWith(s, t) == Len(t) =< Len(s) /\ SubSeq(s, 1, Len(t)) = t

UrlOnServer(url, base) ==
    /\ StartsWith(url, base \o <<"/", "v2", "/">>)
    /\ ~Contains(url, <<"/", "/", "v2">>)

\* C18: every request of execute, getModels and the two chat models goes to
\* the server URL the credential carries, its trailing slashes removed,
\* followed by the /v2/... path, and never contains '//v2'; http://localhost:8000
\* is used only when the credential carries no URL
C18_UrlIsConfiguredServer ==
    mode \in Adapters =>
        \A i \in DOMAIN requestLog :
            UrlOnServer(requestLog[i].options.url,
                        IF ConfiguredUrl(credentials) # <<>>
                        THEN WithoutTrailingSlashes(ConfiguredUrl(credentials))
                        ELSE LocalHost)

\* the property each adapter reads: serverUrl in execute and getModels,
\* baseUrl in supplyData
PropertyRead == IF mode \in {"execute", "models"} THEN "serverUrl" ELSE "baseUrl"

\* what does hold: the URL is built from the property the adapter reads, with
\* its trailing slashes removed, and the chat models use localhost whenever
\* 'baseUrl' is missing, whatever else the credential carries
C18_UrlIsPropertyReadStripped ==
    mode \in Adapters =>
        \A i \in DOMAIN requestLog :
            UrlOnServer(requestLog[i].options.url,
                        IF Get(credentials, PropertyRead).t = "string"
                        THEN WithoutTrailingSlashes(credentials.f[PropertyRead].s)
                        ELSE LocalHost)

\* a chat model has sent its request to localhost although the credential
\* carries the server's URL as 'tritonServerUrl'
C18_LocalHostWitness ==
    /\ mode \in {"infer", "generate"}
    /\ Get(credentials, "tritonServerUrl") = Str(MockTriton)
    /\ requestLog # <<>>
    /\ StartsWith(requestLog[1].options.url, LocalHost \o <<"/", "v2">>)

\* a request has been sent for a URL configured with two trailing slashes
C18_StrippedWitness ==
    /\ mode \in Adapters
    /\ ConfiguredUrl(credentials) = MockTriton \o <<"/", "/">>
    /\ requestLog # <<>>
    /\ StartsWith(requestLog[1].options.url, MockTriton \o <<"/", "v2", "/">>)


(***************************************************************************)
(* C19: the connectivity test of the credential                            *)
(***************************************************************************)
TestIssued == mode = "credential" /\ requestLog # <<>>

\* the address a request with a base URL is sent to
Target(options) == options.baseURL \o options.url

\* C19: the connectivity test is a GET of /v2/health/live on the server URL
\* configured in the credential tested, whatever that URL is
C19_TestTargetsConfiguredServer ==
    TestIssued =>
        /\ requestLog[1].options.method = "GET"
        /\ Target(requestLog[1].options) = ConfiguredUrl(credentials) \o HealthPath

\* what does hold: the test of a credential with 'baseUrl' targets that URL;
\* the test of a credential with 'tritonServerUrl' targets localhost
C19_TestTargetsBaseUrlOrLocalHost ==
    TestIssued =>
        /\ requestLog[1].options.method = "GET"
        /\ Target(requestLog[1].options) =
              (IF HasProperty(credentials, "tritonServerUrl") THEN LocalHost
               ELSE ConfiguredUrl(credentials)) \o HealthPath

\* a credential configured for the mock server has been tested on localhost
C19_FixedAddressWitness ==
    /\ TestIssued
    /\ Get(credentials, "tritonServerUrl") = Str(MockTriton)
    /\ Target(requestLog[1].options) = LocalHost \o HealthPath

(***************************************************************************)
(* C20: the Authorization header                                           *)
(***************************************************************************)
\* the headers a request was given (execute and getModels give none)
HeadersOf(options) ==
    IF "headers" \in DOMAIN options THEN options.headers ELSE Obj(EmptyObject)

ConfiguredApiKey(creds) ==
    IF Get(creds, "apiKey").t = "string" THEN creds.f["apiKey"].s ELSE <<>>

\* C20: with a non-empty apiKey in the credential every request carries
\* 'Authorization: Bearer <apiKey>'; with apiKey absent or empty no request
\* carries an Authorization header
C20_BearerIffApiKey ==
    \A i \in DOMAIN requestLog :
        LET headers == HeadersOf(requestLog[i].options)
        IN  IF ConfiguredApiKey(credentials) # <<>>
            THEN Get(headers, "Authorization")
                    = Str(<<"Bearer ">> \o ConfiguredApiKey(credentials))
            ELSE ~HasProperty(headers, "Authorization")

\* what does hold: no request of an adapter carries an Authorization header,
\* with or without an apiKey
C20_AdaptersSendNoAuthorization ==
    mode \in Adapters =>
        \A i \in DOMAIN requestLog :
            ~HasProperty(HeadersOf(requestLog[i].options), "Authorization")

\* an adapter has sent a request without the header for a credential with apiKey
C20_NoHeaderWitness ==
    /\ mode \in Adapters
    /\ ConfiguredApiKey(credentials) = ApiKey
    /\ requestLog # <<>>
    /\ ~HasProperty(HeadersOf(requestLog[1].options), "Authorization")

\* execute has done so on the server the credential names
C20_ExecuteNoHeaderWitness ==
    /\ mode = "execute"
    /\ ConfiguredApiKey(credentials) = ApiKey
    /\ requestLog # <<>>
    /\ ~HasProperty(HeadersOf(requestLog[1].options), "Authorization")

\* the connectivity test has sent 'Authorization: Bearer ' for an empty apiKey
C20_EmptyBearerWitness ==
    /\ TestIssued
    /\ Get(credentials, "apiKey") = Str(<<>>)
    /\ Get(HeadersOf(requestLog[1].options), "Authorization") = Str(<<"Bearer ">>)


(***************************************************************************)
(* C21: the 'Advanced Options' toggle                                      *)
(***************************************************************************)
\* the item's parameters with the three overrides at their defaults
WithoutOverrides(p) ==
    [p EXCEPT !.endpointPathSegment = <<"/", "generate">>,
              !.requestInputField = "text_input",
              !.responseOutputField = "text_output"]

\* the parameters the claim lets execute work with
Gated(p) == IF p.advancedOptions THEN p ELSE WithoutOverrides(p)

\* C21: with the toggle off execute posts to '/generate' with the text in
\* 'text_input' and reads the result from 'text_output', whatever the three
\* override parameters hold; with the toggle on the overrides are used
C21_ToggleGatesOverrides ==
    /\ ItemJustRequested =>
          requestLog[Len(requestLog)].options
              = HttpRequestOptions(serverUrl, Gated(cur.parameters))
    /\ (ItemSucceeded /\ cur.parameters.outputFieldNameN8n = "completion") =>
          LastRecord.json["completion"]
              = Str(CompletionText(received.value, Gated(cur.parameters).responseOutputField))

\* what does hold: the three parameters are used as read, toggle on or off
C21_OverridesUsedAsRead ==
    /\ ItemJustRequested =>
          requestLog[Len(requestLog)].options = HttpRequestOptions(serverUrl, cur.parameters)
    /\ (ItemSucceeded /\ cur.parameters.outputFieldNameN8n = "completion") =>
          LastRecord.json["completion"]
              = Str(CompletionText(received.value, cur.parameters.responseOutputField))

\* with the toggle off a request has gone to the overriding path segment with
\* the text in the overriding field
C21_ToggleOffWitness ==
    /\ ItemJustRequested
    /\ ~cur.parameters.advancedOptions
    /\ cur.parameters.endpointPathSegment = <<"/", "custom_generate">>
    /\ requestLog[Len(requestLog)].options.url
          = MockTriton \o <<"/", "v2", "/", "models", "/", "llama2vllm", "/", "custom_generate">>
    /\ Get(LastBody, "my_text_in") = Str(<<"hi">>)
    /\ ~HasProperty(LastBody, "text_input")

\* with the toggle on the overrides of the test are used
C21_ToggleOnWitness ==
    /\ ItemSucceeded
    /\ cur.parameters.advancedOptions
    /\ cur.parameters.responseOutputField = "my_text_out"
    /\ received.value = Obj("my_text_out" :> Str(<<"Custom output text.">>))
    /\ LastRecord.json["completion"] = Str(<<"Custom output text.">>)


(***************************************************************************)
(* C22: a failed request inside _generate of the chat models               *)
(***************************************************************************)
\* _generate has just ended on a rejected request
ChatRequestFailed ==
    /\ mode \in {"infer", "generate"}
    /\ pc = "idle"
    /\ received.kind = "error"
    /\ received.item = cur.item

\* the calls of the failed-attempt handler made for call k
HandlerCalls(k) == {i \in DOMAIN handlerLog : handlerLog[i].item = k}

HandlerToldOnce ==
    /\ Cardinality(HandlerCalls(cur.item)) = 1
    /\ \A i \in HandlerCalls(cur.item) : handlerLog[i].error = received.value

\* the status and the message the claim names: the first one that is there
StatedStatus(error) ==
    IF Get(Get(error.cause, "response"), "status").t # "undefined"
    THEN Get(Get(error.cause, "response"), "status")
    ELSE IF error.httpCode.t # "undefined" THEN error.httpCode
    ELSE Num(500, 0)

StatedMessage(error) ==
    IF Get(error.cause, "message").t # "undefined" THEN Get(error.cause, "message").s
    ELSE error.message

StatedApiErrorMessage(error) ==
    <<"Nvidia Triton API Error (Status ">> \o ToJsString(StatedStatus(error)) \o <<"): ">>
        \o StatedMessage(error)

\* C22: when the request of either chat model fails, the handler is called
\* exactly once with the original error, and the error raised has the message
\* 'Nvidia Triton API Error (Status s): m' and the status s, s being the
\* response status, else httpCode, else 500, and m the cause's message, else
\* the error's own
C22_HandlerThenApiError ==
    ChatRequestFailed =>
        /\ HandlerToldOnce
        /\ outcome.kind = "thrown"
        /\ outcome.error.message = StatedApiErrorMessage(received.value)
        /\ outcome.error.status = StatedStatus(received.value)

\* what does hold: the handler is called exactly once with the original error;
\* what it raises is what _generate raises; when it returns, the API error is
\* raised, with 'Unknown error...' for an error without any message
C22_HandlerErrorOrApiError ==
    ChatRequestFailed =>
        /\ HandlerToldOnce
        /\ outcome.kind = "thrown"
        /\ \/ outcome.error = HandlerRaised
           \/ /\ outcome.error.status = StatedStatus(received.value)
              /\ outcome.error.message =
                    IF StatedMessage(received.value) # <<>>
                    THEN StatedApiErrorMessage(received.value)
                    ELSE <<"Nvidia Triton API Error (Status ">>
                            \o ToJsString(StatedStatus(received.value)) \o <<"): ">>
                            \o (IF mode = "infer" THEN <<"Unknown error">>
                                ELSE <<"Unknown error during Triton API call">>)

\* the handler was told of a 503 and raised: its error left _generate
C22_HandlerRaisedWitness ==
    /\ ChatRequestFailed
    /\ received.value = ServiceUnavailable
    /\ HandlerToldOnce
    /\ outcome = Thrown(HandlerRaised)

\* the handler returned: the API error of a 503 was raised
C22_ApiErrorWitness ==
    /\ ChatRequestFailed
    /\ received.value = ServiceUnavailable
    /\ HandlerToldOnce
    /\ outcome.kind = "thrown"
    /\ outcome.error.message =
          <<"Nvidia Triton API Error (Status ", "5", "0", "3", "): ", "Service Unavailable">>
    /\ outcome.error.status = Num(503, 0)


(***************************************************************************)
(* C23: continue-on-fail gives one record per input item                   *)
(***************************************************************************)
\* execute runs with continue-on-fail and a credential it can read the URL of
ContinuingOnFail ==
    /\ mode = "execute"
    /\ continueOnFail
    /\ Get(credentials, "serverUrl").t = "string"

\* the failures caught for input item k (counted from 1)
FailuresOf(k) == {i \in DOMAIN failLog : failLog[i].item = k - 1}

\* the keys of an input item execute never writes
KeptKeys(json) == DOMAIN json \ {"completion", "rawTritonResponse"}

\* record k is the error record of input item k
IsErrorRecordOf(record, k) ==
    /\ "error" \in DOMAIN record
    /\ record.json = items[k]
    /\ \E i \in FailuresOf(k) : record.error.message = failLog[i].error.message

\* record k is a success record of input item k
IsSuccessRecordOf(record, k) ==
    /\ "error" \notin DOMAIN record
    /\ FailuresOf(k) = {}
    /\ "rawTritonResponse" \in DOMAIN record.json
    /\ \A key \in DOMAIN items[k] : key \in DOMAIN record.json
    /\ \A key \in KeptKeys(record.json) : key \in DOMAIN items[k]
    /\ \A key \in KeptKeys(items[k]) : record.json[key] = items[k][key]

\* C23: with continue-on-fail and a credential carrying serverUrl execute never
\* raises, and what it returns has one record per input item, in input order,
\* record k paired with item k and being its success record or its error record
C23_OneRecordPerItem ==
    ContinuingOnFail =>
        /\ outcome.kind # "thrown"
        /\ pc = "done" =>
              /\ outcome = [kind |-> "returned", output |-> <<returnData>>]
              /\ Len(returnData) = Len(items)
              /\ \A k \in DOMAIN returnData :
                    /\ returnData[k].pairedItem = [item |-> k - 1]
                    /\ \/ IsErrorRecordOf(returnData[k], k)
                       \/ IsSuccessRecordOf(returnData[k], k)

\* execute has returned for two different items, the first failed and the
\* second succeeded
C23_Witness ==
    /\ ContinuingOnFail
    /\ pc = "done"
    /\ Len(items) = 2
    /\ items[1] # items[2]
    /\ IsErrorRecordOf(returnData[1], 1)
    /\ IsSuccessRecordOf(returnData[2], 2)

\* the other mix: the first succeeded and the second failed
C23_WitnessSuccessThenFailure ==
    /\ ContinuingOnFail
    /\ pc = "done"
    /\ Len(items) = 2
    /\ items[1] # items[2]
    /\ IsSuccessRecordOf(returnData[1], 1)
    /\ IsErrorRecordOf(returnData[2], 2)


(***************************************************************************)
(* C24: the request id of the /infer chat model                            *)
(***************************************************************************)
\* the 'id' of the body of the i-th request
SentId(i) == Get(requestLog[i].options.body, "id")

\* every call so far has sent an id, and no two calls the same
IdsAreFresh ==
    /\ \A i \in DOMAIN requestLog : SentId(i).t = "string" /\ SentId(i).s # <<>>
    /\ \A i, j \in DOMAIN requestLog : i # j => SentId(i) # SentId(j)

\* _generate of the /infer model has just returned a result
InferReturned ==
    /\ mode = "infer"
    /\ outcome.kind = "result"
    /\ received.kind = "response"
    /\ requestLog # <<>>
    /\ requestLog[Len(requestLog)].item = cur.item

\* C24: every call of the /infer model sends a fresh id in the body's 'id', no
\* two calls the same, and llmOutput.id is the response's id when the response
\* has one, otherwise the id sent in that call
C24_FreshIdOrResponseId ==
    mode = "infer" =>
        /\ IdsAreFresh
        /\ InferReturned =>
              outcome.llmOutput.id =
                  IF Get(received.value, "id").t \notin {"undefined", "null"}
                  THEN received.value.f["id"]
                  ELSE SentId(Len(requestLog))

\* C24 as the code has it: the response's id is reported when it is truthy;
\* an empty or null id counts as none and the id sent is reported
C24_FreshIdOrTruthyResponseId ==
    mode = "infer" =>
        /\ IdsAreFresh
        /\ InferReturned =>
              outcome.llmOutput.id =
                  IF Truthy(Get(received.value, "id")) THEN received.value.f["id"]
                  ELSE SentId(Len(requestLog))

\* two calls were made and the second, answered without an id, reported the id
\* it had sent, which differs from the first call's
C24_Witness ==
    /\ InferReturned
    /\ Len(requestLog) = 2
    /\ ~HasProperty(received.value, "id")
    /\ outcome.llmOutput.id = SentId(2)
    /\ SentId(1) # SentId(2)

\* the server's id was reported
C24_ServerIdWitness ==
    /\ InferReturned
    /\ Get(received.value, "id") = Str(<<"server-id">>)
    /\ outcome.llmOutput.id = Str(<<"server-id">>)

\* the response had an empty id and the id sent was reported
C24_EmptyIdWitness ==
    /\ InferReturned
    /\ Get(received.value, "id") = Str(<<>>)
    /\ outcome.llmOutput.id = SentId(Len(requestLog))


(***************************************************************************)
(* C25: the runnable of withStructuredOutput                               *)
(***************************************************************************)
\* an invoke of the runnable has just ended
StructuredEnded ==
    /\ mode = "structured"
    /\ pc = "idle"
    /\ received.kind # "none"
    /\ received.item = cur.item

\* what _generate made of what the request brought
Generated ==
    IF received.kind = "response"
    THEN InferExtract(chat, received.value, cur.requestId)
    ELSE Thrown(received.value)

\* the model replied with this text
RepliedWith(text) ==
    /\ StructuredEnded
    /\ received.kind = "response"
    /\ received.value = ReplyResponse(text)

\* the requests made for the invoke that has just ended
RequestsOfInvoke == {i \in DOMAIN requestLog : requestLog[i].item = cur.item}

\* C25: the runnable of withStructuredOutput returns the value of a reply that
\* is JSON and {output: text} for a reply that is not, never failing for such
\* a reply; it invokes the model exactly once per invoke; and an error the
\* model's invocation raises leaves invoke
C25_ParsedOrWrapped ==
    /\ \A r \in JsonReplies :
          RepliedWith(r.text) => outcome = [kind |-> "returned", output |-> r.value]
    /\ \A text \in NonJsonReplies :
          RepliedWith(text) =>
              outcome = [kind |-> "returned", output |-> Obj("output" :> Str(text))]
    /\ StructuredEnded =>
          /\ Cardinality(RequestsOfInvoke) = 1
          /\ Generated.kind = "thrown" <=> outcome.kind = "thrown"
          /\ (received.kind = "response" /\ Generated.kind = "thrown") => outcome = Generated
          /\ received.kind = "error" =>
                outcome.error \in {HandlerRaised, ApiError(received.value, <<"Unknown error">>)}

\* a reply that is a JSON object was returned as that object
C25_Witness ==
    /\ RepliedWith(<<"{", "\"", "answer", "\"", ":", "4", "2", "}">>)
    /\ outcome = [kind |-> "returned", output |-> Obj("answer" :> Num(42, 0))]

\* a reply in plain words was returned wrapped
C25_WrappedWitness ==
    /\ RepliedWith(<<"The answer is 42.">>)
    /\ outcome = [kind |-> "returned",
                  output |-> Obj("output" :> Str(<<"The answer is 42.">>))]

\* the model's invocation raised for a response without data, and so did invoke
C25_PropagatedWitness ==
    /\ StructuredEnded
    /\ received.kind = "response"
    /\ received.value = Obj("outputs" :> Arr(<<Obj("name" :> Str(<<"OUTPUT">>))>>))
    /\ outcome.kind = "thrown"
    /\ outcome = Generated

====
